---- MODULE Spec2Model ----
(***************************************************************************)
(* pdfdarkmode: the colour classification / remapping engine and the      *)
(* content-stream operator extractor and rewriter.                        *)
(*                                                                         *)
(* Numbers: the program computes in float64.  The model computes the same *)
(* expressions exactly, on fractions [n, d] in lowest terms with d > 0,   *)
(* so a comparison against a threshold is decided by the exact value.     *)
(* Text: a string is a sequence of one-character strings.                 *)
(***************************************************************************)
EXTENDS Integers, Sequences, FiniteSets, TLC

----------------------------------------------------------------------------
(* Exact arithmetic on fractions *)

Abs(x) == IF x < 0 THEN -x ELSE x

RECURSIVE GCD(_, _)
GCD(a, b) == IF b = 0 THEN a ELSE GCD(b, a % b)

Rat(n, d) ==
    LET g == GCD(Abs(n), Abs(d))
        s == IF d < 0 THEN -1 ELSE 1
    IN  [n |-> s * (n \div g), d |-> s * (d \div g)]

RInt(k) == [n |-> k, d |-> 1]

RNeg(x) == [n |-> -x.n, d |-> x.d]

RAdd(x, y) ==
    LET g == GCD(x.d, y.d)
    IN  Rat(x.n * (y.d \div g) + y.n * (x.d \div g), (x.d \div g) * y.d)

RSub(x, y) == RAdd(x, RNeg(y))

RMul(x, y) ==
    LET g1 == GCD(Abs(x.n), y.d)
        g2 == GCD(Abs(y.n), x.d)
    IN  Rat((x.n \div g1) * (y.n \div g2), (x.d \div g2) * (y.d \div g1))

RInv(x) == IF x.n < 0 THEN [n |-> -x.d, d |-> -x.n] ELSE [n |-> x.d, d |-> x.n]

RDiv(x, y) == RMul(x, RInv(y))

RSign(x) == IF x.n < 0 THEN -1 ELSE IF x.n = 0 THEN 0 ELSE 1

RLt(x, y) == RSign(RSub(x, y)) < 0

RLe(x, y) == RSign(RSub(x, y)) <= 0

RGt(x, y) == RLt(y, x)

RGe(x, y) == RLe(y, x)

RMax(x, y) == IF RLt(x, y) THEN y ELSE x

RMin(x, y) == IF RLt(y, x) THEN y ELSE x

RAbs(x) == [n |-> Abs(x.n), d |-> x.d]

\* the decimal literal m / 10^k written in the source, e.g. Dec(15, 100) for 0.15
Dec(m, p) == Rat(m, p)

R0 == RInt(0)

R1 == RInt(1)

----------------------------------------------------------------------------
(* Text *)

DigitChars == <<"0", "1", "2", "3", "4", "5", "6", "7", "8", "9">>

IsDigit(c) == \E i \in 1..10 : DigitChars[i] = c

DigitVal(c) == (CHOOSE i \in 1..10 : DigitChars[i] = c) - 1

IsSpace(c) == c \in {" ", "\n", "\t", "\r", "\f"}

Letters ==
    {"a", "b", "c", "d", "e", "f", "g", "h", "i", "j", "k", "l", "m", "n", "o",
     "p", "q", "r", "s", "t", "u", "v", "w", "x", "y", "z",
     "A", "B", "C", "D", "E", "F", "G", "H", "I", "J", "K", "L", "M", "N", "O",
     "P", "Q", "R", "S", "T", "U", "V", "W", "X", "Y", "Z"}

\* \w of the regexp package: [0-9A-Za-z_]
IsWordChar(c) == IsDigit(c) \/ c \in Letters \/ c = "_"

\* decimal digits of a natural number
RECURSIVE NatText(_)
NatText(k) == IF k < 10 THEN <<DigitChars[k + 1]>>
              ELSE NatText(k \div 10) \o <<DigitChars[(k % 10) + 1]>>

\* s[a..b) with 0-based half-open positions, as a Go slice s[a:b]
Slice(s, a, b) == SubSeq(s, a + 1, b)

\* whether text t occurs in s at 0-based position i
OccursAt(s, t, i) == i + Len(t) <= Len(s) /\ Slice(s, i, i + Len(t)) = t

----------------------------------------------------------------------------
(* colors: Color and Scheme *)

NewColorFromRGB8(r, g, b) ==
    [R8 |-> r, G8 |-> g, B8 |-> b,
     R |-> Rat(r, 255), G |-> Rat(g, 255), B |-> Rat(b, 255)]

SchemeDark ==
    [Name |-> "dark", Background |-> NewColorFromRGB8(26, 26, 26),
     Text |-> NewColorFromRGB8(224, 224, 224)]

SchemeSepia ==
    [Name |-> "sepia", Background |-> NewColorFromRGB8(30, 25, 20),
     Text |-> NewColorFromRGB8(230, 218, 200)]

SchemeNord ==
    [Name |-> "nord", Background |-> NewColorFromRGB8(46, 52, 64),
     Text |-> NewColorFromRGB8(236, 239, 244)]

SchemeSolarized ==
    [Name |-> "solarized", Background |-> NewColorFromRGB8(0, 43, 54),
     Text |-> NewColorFromRGB8(131, 148, 150)]

SchemeGruvbox ==
    [Name |-> "gruvbox", Background |-> NewColorFromRGB8(40, 40, 40),
     Text |-> NewColorFromRGB8(235, 219, 178)]

SchemeDracula ==
    [Name |-> "dracula", Background |-> NewColorFromRGB8(40, 42, 54),
     Text |-> NewColorFromRGB8(248, 248, 242)]

SchemeMonokai ==
    [Name |-> "monokai", Background |-> NewColorFromRGB8(39, 40, 34),
     Text |-> NewColorFromRGB8(248, 248, 240)]

AvailableSchemes ==
    {SchemeDark, SchemeSepia, SchemeNord, SchemeSolarized, SchemeGruvbox,
     SchemeDracula, SchemeMonokai}

\* a custom scheme as NewCustomScheme builds it from two parsed colours
CustomScheme(bg, text) == [Name |-> "custom", Background |-> bg, Text |-> text]

\* Color{} and Scheme{}
ZeroColor == NewColorFromRGB8(0, 0, 0)

ZeroScheme == [Name |-> "", Background |-> ZeroColor, Text |-> ZeroColor]

UpperChars ==
    <<"A", "B", "C", "D", "E", "F", "G", "H", "I", "J", "K", "L", "M", "N", "O",
      "P", "Q", "R", "S", "T", "U", "V", "W", "X", "Y", "Z">>

LowerChars ==
    <<"a", "b", "c", "d", "e", "f", "g", "h", "i", "j", "k", "l", "m", "n", "o",
      "p", "q", "r", "s", "t", "u", "v", "w", "x", "y", "z">>

\* strings.ToLower on ASCII text
ToLowerChar(c) ==
    IF \E i \in 1..26 : UpperChars[i] = c
    THEN LowerChars[CHOOSE i \in 1..26 : UpperChars[i] = c]
    ELSE c

ToLower(s) == [i \in 1..Len(s) |-> ToLowerChar(s[i])]

\* strings.TrimPrefix
TrimPrefix(s, prefix) ==
    IF Len(s) >= Len(prefix) /\ SubSeq(s, 1, Len(prefix)) = prefix
    THEN SubSeq(s, Len(prefix) + 1, Len(s))
    ELSE s

HexChars ==
    <<"0", "1", "2", "3", "4", "5", "6", "7", "8", "9", "a", "b", "c", "d", "e", "f">>

\* the value of a base-16 digit of either case, or -1
HexDigitVal(c) ==
    IF \E i \in 1..16 : HexChars[i] = ToLowerChar(c)
    THEN (CHOOSE i \in 1..16 : HexChars[i] = ToLowerChar(c)) - 1
    ELSE -1

RECURSIVE HexVal(_)
HexVal(s) ==
    IF s = <<>> THEN 0
    ELSE HexVal(SubSeq(s, 1, Len(s) - 1)) * 16 + HexDigitVal(s[Len(s)])

\* strconv.ParseUint(s, 16, 8): the value, or -1 when it reports an error
\* (no digits, a character that is no base-16 digit, a value above 255)
ParseUint16(s) ==
    IF s = <<>> \/ \E i \in 1..Len(s) : HexDigitVal(s[i]) < 0 THEN -1
    ELSE IF HexVal(s) > 255 THEN -1
    ELSE HexVal(s)

\* NewColorFromHex: the Color and the error ("" for nil)
NewColorFromHex(hex) ==
    LET ofParts(r, g, b) ==
            IF r < 0 THEN [color |-> ZeroColor, err |-> "invalid red component"]
            ELSE IF g < 0 THEN [color |-> ZeroColor, err |-> "invalid green component"]
            ELSE IF b < 0 THEN [color |-> ZeroColor, err |-> "invalid blue component"]
            ELSE [color |-> NewColorFromRGB8(r, g, b), err |-> ""]
        ofTrimmed(h) ==
            IF Len(h) # 6 THEN [color |-> ZeroColor, err |-> "invalid hex color"]
            ELSE ofParts(ParseUint16(Slice(h, 0, 2)), ParseUint16(Slice(h, 2, 4)),
                         ParseUint16(Slice(h, 4, 6)))
    IN  ofTrimmed(TrimPrefix(hex, <<"#">>))

\* the AvailableSchemes map: <<key, value>> pairs
AvailableSchemesByName ==
    {<<<<"d", "a", "r", "k">>, SchemeDark>>,
     <<<<"s", "e", "p", "i", "a">>, SchemeSepia>>,
     <<<<"n", "o", "r", "d">>, SchemeNord>>,
     <<<<"s", "o", "l", "a", "r", "i", "z", "e", "d">>, SchemeSolarized>>,
     <<<<"g", "r", "u", "v", "b", "o", "x">>, SchemeGruvbox>>,
     <<<<"d", "r", "a", "c", "u", "l", "a">>, SchemeDracula>>,
     <<<<"m", "o", "n", "o", "k", "a", "i">>, SchemeMonokai>>}

\* GetScheme: the Scheme and the error ("" for nil)
GetScheme(name) ==
    LET found(hits) ==
            IF hits # {}
            THEN [scheme |-> (CHOOSE e \in hits : TRUE)[2], err |-> ""]
            ELSE [scheme |-> ZeroScheme, err |-> "unknown color scheme"]
    IN  found({e \in AvailableSchemesByName : e[1] = ToLower(name)})

\* NewCustomScheme keeping the background when the text colour is rejected
NewCustomSchemeKeepingBackground(bgHex, textHex) ==
    LET build(bg, text) ==
            IF bg.err # ""
            THEN [scheme |-> ZeroScheme, err |-> "invalid background color"]
            ELSE IF text.err # ""
            THEN [scheme |-> [Name |-> "", Background |-> bg.color, Text |-> ZeroColor],
                  err |-> "invalid text color"]
            ELSE [scheme |-> CustomScheme(bg.color, text.color), err |-> ""]
    IN  build(NewColorFromHex(bgHex), NewColorFromHex(textHex))

\* NewCustomScheme: the Scheme and the error ("" for nil)
NewCustomScheme(bgHex, textHex) ==
    LET build(bg, text) ==
            IF bg.err # ""
            THEN [scheme |-> ZeroScheme, err |-> "invalid background color"]
            ELSE IF text.err # ""
            THEN [scheme |-> ZeroScheme, err |-> "invalid text color"]
            ELSE [scheme |-> CustomScheme(bg.color, text.color), err |-> ""]
    IN  build(NewColorFromHex(bgHex), NewColorFromHex(textHex))

----------------------------------------------------------------------------
(* direct/transformer.go: colour-space math *)

Max3(r, g, b) == RMax(r, RMax(g, b))

Min3(r, g, b) == RMin(r, RMin(g, b))

getSaturation(r, g, b) ==
    LET sat(max, min, l) ==
            IF max = min THEN R0
            ELSE IF RLe(l, Dec(1, 2))
                 THEN RDiv(RSub(max, min), RAdd(max, min))
                 ELSE RDiv(RSub(max, min), RSub(RSub(RInt(2), max), min))
        ofRange(max, min) == sat(max, min, RDiv(RAdd(max, min), RInt(2)))
    IN  ofRange(Max3(r, g, b), Min3(r, g, b))

getLightness(r, g, b) == RDiv(RAdd(Max3(r, g, b), Min3(r, g, b)), RInt(2))

\* returns <<h, s, l>>
\* rgbToHSL without the turn added to a negative hue
rgbToHSLNoWrap(r, g, b) ==
    LET s(max, min, l, d) ==
            IF RGt(l, Dec(1, 2))
            THEN RDiv(d, RSub(RSub(RInt(2), max), min))
            ELSE RDiv(d, RAdd(max, min))
        wrap(h0) == h0
        h6(max, d) ==
            IF max = r
            THEN wrap(RDiv(RSub(g, b), d))
            ELSE IF max = g
                 THEN RAdd(RDiv(RSub(b, r), d), RInt(2))
                 ELSE RAdd(RDiv(RSub(r, g), d), RInt(4))
        hsl(max, min, l, d) ==
            IF max = min THEN <<R0, R0, l>>
            ELSE <<RDiv(h6(max, d), RInt(6)), s(max, min, l, d), l>>
        ofRange(max, min) ==
            hsl(max, min, RDiv(RAdd(max, min), RInt(2)), RSub(max, min))
    IN  ofRange(Max3(r, g, b), Min3(r, g, b))

rgbToHSL(r, g, b) ==
    LET s(max, min, l, d) ==
            IF RGt(l, Dec(1, 2))
            THEN RDiv(d, RSub(RSub(RInt(2), max), min))
            ELSE RDiv(d, RAdd(max, min))
        wrap(h0) == IF RLt(g, b) THEN RAdd(h0, RInt(6)) ELSE h0
        h6(max, d) ==
            IF max = r
            THEN wrap(RDiv(RSub(g, b), d))
            ELSE IF max = g
                 THEN RAdd(RDiv(RSub(b, r), d), RInt(2))
                 ELSE RAdd(RDiv(RSub(r, g), d), RInt(4))
        hsl(max, min, l, d) ==
            IF max = min THEN <<R0, R0, l>>
            ELSE <<RDiv(h6(max, d), RInt(6)), s(max, min, l, d), l>>
        ofRange(max, min) ==
            hsl(max, min, RDiv(RAdd(max, min), RInt(2)), RSub(max, min))
    IN  ofRange(Max3(r, g, b), Min3(r, g, b))

hueToRGB(p, q, t0) ==
    LET ramp(t) ==
            IF RLt(t, Rat(1, 6))
            THEN RAdd(p, RMul(RMul(RSub(q, p), RInt(6)), t))
            ELSE IF RLt(t, Rat(1, 2))
                 THEN q
                 ELSE IF RLt(t, Rat(2, 3))
                      THEN RAdd(p, RMul(RMul(RSub(q, p), RSub(Rat(2, 3), t)), RInt(6)))
                      ELSE p
        below(t1) == ramp(IF RGt(t1, R1) THEN RSub(t1, R1) ELSE t1)
    IN  below(IF RLt(t0, R0) THEN RAdd(t0, R1) ELSE t0)

\* returns <<r, g, b>>
hslToRGB(h, s, l) ==
    LET rgb(p, q) ==
            <<hueToRGB(p, q, RAdd(h, Rat(1, 3))),
              hueToRGB(p, q, h),
              hueToRGB(p, q, RSub(h, Rat(1, 3)))>>
        withQ(q) == rgb(RSub(RMul(RInt(2), l), q), q)
    IN  IF s = R0 THEN <<l, l, l>>
        ELSE withQ(IF RLt(l, Dec(1, 2))
                   THEN RMul(l, RAdd(R1, s))
                   ELSE RSub(RAdd(l, s), RMul(l, s)))

\* returns <<c, m, y, k>>
rgbToCMYK(r, g, b) ==
    LET cmyk(k) ==
            IF k = R1 THEN <<R0, R0, R0, R1>>
            ELSE <<RDiv(RSub(RSub(R1, r), k), RSub(R1, k)),
                   RDiv(RSub(RSub(R1, g), k), RSub(R1, k)),
                   RDiv(RSub(RSub(R1, b), k), RSub(R1, k)),
                   k>>
    IN  cmyk(RSub(R1, Max3(r, g, b)))

isGrayscale(r, g, b) ==
    /\ RLt(RAbs(RSub(r, g)), Dec(2, 100))
    /\ RLt(RAbs(RSub(g, b)), Dec(2, 100))
    /\ RLt(RAbs(RSub(r, b)), Dec(2, 100))

interpolateColor(c1, c2, t) ==
    <<RAdd(c1.R, RMul(t, RSub(c2.R, c1.R))),
      RAdd(c1.G, RMul(t, RSub(c2.G, c1.G))),
      RAdd(c1.B, RMul(t, RSub(c2.B, c1.B)))>>

----------------------------------------------------------------------------
(* strconv.ParseFloat on an operand and fmt.Sprintf("%.3f") on a result *)

\* the digits of s[i..] read as a natural number, most significant first
RECURSIVE DigitsVal(_)
DigitsVal(s) ==
    IF s = <<>> THEN 0
    ELSE DigitsVal(SubSeq(s, 1, Len(s) - 1)) * 10 + DigitVal(s[Len(s)])

RECURSIVE Pow10(_)
Pow10(k) == IF k = 0 THEN 1 ELSE 10 * Pow10(k - 1)

AllDigits(s) == \A i \in 1..Len(s) : IsDigit(s[i])

\* an unsigned decimal literal: digits, optionally a point and digits, or
\* a point and digits
IsUnsignedDecimal(s) ==
    \E k \in 0..Len(s) :
        LET ip == SubSeq(s, 1, k)
            fp == SubSeq(s, k + 1, Len(s))
        IN  /\ AllDigits(ip)
            /\ \/ fp = <<>> /\ ip # <<>>
               \/ /\ fp # <<>>
                  /\ fp[1] = "."
                  /\ AllDigits(Tail(fp))
                  /\ (ip # <<>> \/ Tail(fp) # <<>>)

UnsignedDecimalVal(s) ==
    LET k  == CHOOSE j \in 0..Len(s) :
                  AllDigits(SubSeq(s, 1, j)) /\ (j = Len(s) \/ s[j + 1] = ".")
        ip == SubSeq(s, 1, k)
        fd == IF k = Len(s) THEN <<>> ELSE SubSeq(s, k + 2, Len(s))
    IN  RAdd(RInt(DigitsVal(ip)), Rat(DigitsVal(fd), Pow10(Len(fd))))

\* parseFloat giving 1 when ParseFloat reports an error
parseFloatErrorIsOne(s) ==
    LET signed == s # <<>> /\ s[1] \in {"-", "+"}
        body   == IF signed THEN Tail(s) ELSE s
    IN  IF ~IsUnsignedDecimal(body) THEN R1
        ELSE IF signed /\ s[1] = "-" THEN RNeg(UnsignedDecimalVal(body))
             ELSE UnsignedDecimalVal(body)

\* parseFloat: the value of the literal, or 0 when ParseFloat reports an error
parseFloat(s) ==
    LET signed == s # <<>> /\ s[1] \in {"-", "+"}
        body   == IF signed THEN Tail(s) ELSE s
    IN  IF ~IsUnsignedDecimal(body) THEN R0
        ELSE IF signed /\ s[1] = "-" THEN RNeg(UnsignedDecimalVal(body))
             ELSE UnsignedDecimalVal(body)

\* |x| in thousandths with the further digits cut off
ThousandthsTruncated(x) == (Abs(x.n) * 1000) \div x.d

\* |x| in thousandths, rounded to nearest, ties to even (long division, one
\* decimal digit at a time)
Thousandths(x) ==
    LET a  == Abs(x.n)
        q  == a \div x.d
        r0 == a % x.d
        d1 == (r0 * 10) \div x.d
        r1 == (r0 * 10) % x.d
        d2 == (r1 * 10) \div x.d
        r2 == (r1 * 10) % x.d
        d3 == (r2 * 10) \div x.d
        r3 == (r2 * 10) % x.d
        t  == q * 1000 + d1 * 100 + d2 * 10 + d3
        up == 2 * r3 > x.d \/ (2 * r3 = x.d /\ t % 2 = 1)
    IN  IF up THEN t + 1 ELSE t

\* fmt.Sprintf("%.3f", x)
Fmt3(x) ==
    LET t    == Thousandths(x)
        frac == t % 1000
    IN  (IF x.n < 0 THEN <<"-">> ELSE <<>>)
        \o NatText(t \div 1000) \o <<".">>
        \o <<DigitChars[(frac \div 100) + 1],
             DigitChars[((frac \div 10) % 10) + 1],
             DigitChars[(frac % 10) + 1]>>

\* fmt.Sprintf("%.3f ... %.3f %s", vals..., keyword)
RECURSIVE SprintfOp(_, _)
SprintfOp(vals, keyword) ==
    IF vals = <<>> THEN keyword
    ELSE Fmt3(Head(vals)) \o <<" ">> \o SprintfOp(Tail(vals), keyword)

----------------------------------------------------------------------------
(* direct/transformer.go: the rewrite of one operator *)

KwFillRGB == <<"r", "g">>

KwStrokeRGB == <<"R", "G">>

KwFillGray == <<"g">>

KwStrokeGray == <<"G">>

KwFillCMYK == <<"k">>

KwStrokeCMYK == <<"K">>

KwSc == <<"s", "c">>

KwScn == <<"s", "c", "n">>

KwSC == <<"S", "C">>

KwSCN == <<"S", "C", "N">>

MidGray == Dec(1, 2)

\* invertDocumentColorRGB with the second segment closed at 0.7
\* (lightness >= 0.7 where the code has lightness > 0.7)
invertDocumentColorRGBClosedAt07(scheme, lightness) ==
    LET bg  == scheme.Background
        txt == scheme.Text
        towardMidGray(factor) ==
            <<RSub(txt.R, RMul(factor, RSub(txt.R, MidGray))),
              RSub(txt.G, RMul(factor, RSub(txt.G, MidGray))),
              RSub(txt.B, RMul(factor, RSub(txt.B, MidGray)))>>
        gray3(inverted) == <<inverted, inverted, inverted>>
    IN  IF RGt(lightness, Dec(9, 10))
        THEN <<bg.R, bg.G, bg.B>>
        ELSE IF RGe(lightness, Dec(7, 10))
             THEN interpolateColor(txt, bg,
                      RDiv(RSub(lightness, Dec(7, 10)), Dec(2, 10)))
             ELSE IF RLt(lightness, Dec(15, 100))
                  THEN <<txt.R, txt.G, txt.B>>
                  ELSE IF RLt(lightness, Dec(4, 10))
                       THEN towardMidGray(RDiv(lightness, Dec(4, 10)))
                       ELSE gray3(RSub(R1, lightness))

\* invertDocumentColorRGB: <<r, g, b>> for a document colour of that lightness
invertDocumentColorRGB(scheme, lightness) ==
    LET bg  == scheme.Background
        txt == scheme.Text
    IN  IF RGt(lightness, Dec(9, 10))
        THEN <<bg.R, bg.G, bg.B>>
        ELSE IF RGt(lightness, Dec(7, 10))
             THEN interpolateColor(txt, bg,
                      RDiv(RSub(lightness, Dec(7, 10)), Dec(2, 10)))
             ELSE IF RLt(lightness, Dec(15, 100))
                  THEN <<txt.R, txt.G, txt.B>>
                  ELSE IF RLt(lightness, Dec(4, 10))
                       THEN LET factor == RDiv(lightness, Dec(4, 10))
                            IN  <<RSub(txt.R, RMul(factor, RSub(txt.R, MidGray))),
                                  RSub(txt.G, RMul(factor, RSub(txt.G, MidGray))),
                                  RSub(txt.B, RMul(factor, RSub(txt.B, MidGray)))>>
                       ELSE LET inverted == RSub(R1, lightness)
                            IN  <<inverted, inverted, inverted>>

\* adjustColorfulRGB with the constants of the raster package's
\* adjustColorfulPixel (0.7, 0.3 and 1.1)
adjustColorfulRGBRasterConstants(r, g, b, lightness) ==
    LET newL(l) == IF RGt(l, Dec(7, 10))
                   THEN RAdd(Dec(5, 10), RMul(RSub(l, Dec(7, 10)), Dec(5, 10)))
                   ELSE IF RLt(l, Dec(3, 10))
                        THEN RAdd(Dec(3, 10), RMul(l, Dec(3, 10)))
                        ELSE l
        newS(s) == RMin(R1, RMul(s, Dec(11, 10)))
        adjust(hsl) == hslToRGB(hsl[1], newS(hsl[2]), newL(hsl[3]))
    IN  adjust(rgbToHSL(r, g, b))

\* adjustColorfulRGB: <<r, g, b>>; the lightness argument is not used
adjustColorfulRGB(r, g, b, lightness) ==
    LET newL(l) == IF RLt(l, Dec(55, 100))
                   THEN RAdd(Dec(55, 100), RMul(RDiv(l, Dec(55, 100)), Dec(2, 10)))
                   ELSE IF RGt(l, Dec(85, 100))
                        THEN RAdd(Dec(7, 10), RMul(RSub(l, Dec(85, 100)), Dec(5, 10)))
                        ELSE l
        newS(s) == RMin(R1, RMul(s, Dec(115, 100)))
        adjust(hsl) == hslToRGB(hsl[1], newS(hsl[2]), newL(hsl[3]))
    IN  adjust(rgbToHSL(r, g, b))

grayToRGBOperator(grayOp) ==
    IF grayOp \in {KwFillGray, KwSc, KwScn} THEN KwFillRGB
    ELSE IF grayOp \in {KwStrokeGray, KwSC, KwSCN} THEN KwStrokeRGB
    ELSE grayOp

cmykToRGBOperator(cmykOp) ==
    IF cmykOp = KwFillCMYK THEN KwFillRGB
    ELSE IF cmykOp = KwStrokeCMYK THEN KwStrokeRGB
    ELSE cmykOp

\* bgIsTinted || txtIsTinted
schemeIsTinted(scheme) ==
    \/ ~isGrayscale(scheme.Background.R, scheme.Background.G, scheme.Background.B)
    \/ ~isGrayscale(scheme.Text.R, scheme.Text.G, scheme.Text.B)

\* transformRGB up to the Sprintf with the test saturation <= 0.15
transformRGBColorInclusive(scheme, r, g, b) ==
    LET byColor(saturation, lightness) ==
            IF RLe(saturation, Dec(15, 100))
            THEN [branch |-> "document",
                  rgb |-> invertDocumentColorRGB(scheme, lightness)]
            ELSE [branch |-> "colorful",
                  rgb |-> adjustColorfulRGB(r, g, b, lightness)]
    IN  byColor(getSaturation(r, g, b), getLightness(r, g, b))

\* transformRGB up to the Sprintf: which branch ran and the new colour
transformRGBColor(scheme, r, g, b) ==
    LET byColor(saturation, lightness) ==
            IF RLt(saturation, Dec(15, 100))
            THEN [branch |-> "document",
                  rgb |-> invertDocumentColorRGB(scheme, lightness)]
            ELSE [branch |-> "colorful",
                  rgb |-> adjustColorfulRGB(r, g, b, lightness)]
    IN  byColor(getSaturation(r, g, b), getLightness(r, g, b))

transformRGB(scheme, op) ==
    LET result(c) ==
            [branch |-> c.branch, vals |-> c.rgb, keyword |-> op.Operator,
             text |-> SprintfOp(c.rgb, op.Operator)]
    IN  result(transformRGBColor(scheme, parseFloat(op.Values[1]),
                                 parseFloat(op.Values[2]), parseFloat(op.Values[3])))

\* the document mapping as transformGray and transformCMYK write it out for
\* a tinted scheme
tintedDocumentRGB(scheme, gray) ==
    LET bg  == scheme.Background
        txt == scheme.Text
    IN  IF RGt(gray, Dec(9, 10))
        THEN <<bg.R, bg.G, bg.B>>
        ELSE IF RGt(gray, Dec(7, 10))
             THEN interpolateColor(txt, bg, RDiv(RSub(gray, Dec(7, 10)), Dec(2, 10)))
             ELSE IF RLt(gray, Dec(15, 100))
                  THEN <<txt.R, txt.G, txt.B>>
                  ELSE IF RLt(gray, Dec(4, 10))
                       THEN LET factor == RDiv(gray, Dec(4, 10))
                            IN  <<RSub(txt.R, RMul(factor, RSub(txt.R, MidGray))),
                                  RSub(txt.G, RMul(factor, RSub(txt.G, MidGray))),
                                  RSub(txt.B, RMul(factor, RSub(txt.B, MidGray)))>>
                       ELSE LET inverted == RSub(R1, gray)
                            IN  <<inverted, inverted, inverted>>

\* transformGray, the branch for a scheme that is not tinted
simpleGray(scheme, gray) ==
    LET bg  == scheme.Background
        txt == scheme.Text
    IN  IF RGt(gray, Dec(9, 10))
        THEN bg.R
        ELSE IF RGt(gray, Dec(7, 10))
             THEN LET factor == RDiv(RSub(gray, Dec(7, 10)), Dec(2, 10))
                  IN  RAdd(bg.R, RMul(RSub(R1, factor), RAdd(bg.R, Dec(5, 100))))
             ELSE IF RLt(gray, Dec(15, 100))
                  THEN txt.R
                  ELSE IF RLt(gray, Dec(4, 10))
                       THEN RSub(txt.R, RMul(RDiv(gray, Dec(4, 10)), Dec(3, 10)))
                       ELSE RSub(R1, gray)

transformGray(scheme, op) ==
    LET result(vals, keyword) ==
            [branch |-> "document", vals |-> vals, keyword |-> keyword,
             text |-> SprintfOp(vals, keyword)]
        ofGray(gray) ==
            IF schemeIsTinted(scheme)
            THEN result(tintedDocumentRGB(scheme, gray),
                        grayToRGBOperator(op.Operator))
            ELSE result(<<simpleGray(scheme, gray)>>, op.Operator)
    IN  ofGray(parseFloat(op.Values[1]))

\* r=(1-c)(1-k), g=(1-m)(1-k), b=(1-y)(1-k)
cmykToRGB(c, m, y, k) ==
    <<RMul(RSub(R1, c), RSub(R1, k)),
      RMul(RSub(R1, m), RSub(R1, k)),
      RMul(RSub(R1, y), RSub(R1, k))>>

\* transformCMYK, the document branch for a scheme that is not tinted
simpleCMYK(scheme, lightness) ==
    <<R0, R0, R0,
      RSub(R1, IF RGt(lightness, Dec(9, 10)) THEN scheme.Background.R
               ELSE IF RLt(lightness, Dec(15, 100)) THEN scheme.Text.R
               ELSE RSub(R1, lightness))>>

transformCMYK(scheme, op) ==
    LET result(branch, vals, keyword) ==
            [branch |-> branch, vals |-> vals, keyword |-> keyword,
             text |-> SprintfOp(vals, keyword)]
        colorful(adj) ==
            result("colorful", rgbToCMYK(adj[1], adj[2], adj[3]), op.Operator)
        byColor(rgb, saturation, lightness) ==
            IF RLt(saturation, Dec(15, 100))
            THEN IF schemeIsTinted(scheme)
                 THEN result("document", tintedDocumentRGB(scheme, lightness),
                             cmykToRGBOperator(op.Operator))
                 ELSE result("document", simpleCMYK(scheme, lightness),
                             op.Operator)
            ELSE colorful(adjustColorfulRGB(rgb[1], rgb[2], rgb[3], lightness))
        ofRGB(rgb) ==
            byColor(rgb, getSaturation(rgb[1], rgb[2], rgb[3]),
                    getLightness(rgb[1], rgb[2], rgb[3]))
    IN  ofRGB(cmykToRGB(parseFloat(op.Values[1]), parseFloat(op.Values[2]),
                        parseFloat(op.Values[3]), parseFloat(op.Values[4])))

\* TransformOperator that rewrites only an operator found at the start of
\* the text and returns every other operator's matched text
TransformOperatorAtStartOnly(scheme, op) ==
    IF op.StartPos # 0
    THEN [branch |-> "unknown", vals |-> <<>>, keyword |-> op.Operator,
          text |-> op.FullMatch]
    ELSE IF op.ColorSpace = "rgb" THEN transformRGB(scheme, op)
    ELSE IF op.ColorSpace = "gray" THEN transformGray(scheme, op)
    ELSE IF op.ColorSpace = "cmyk" THEN transformCMYK(scheme, op)
    ELSE [branch |-> "unknown", vals |-> <<>>, keyword |-> op.Operator,
          text |-> op.FullMatch]

\* TransformOperator: the returned string is .text; .branch, .vals and
\* .keyword are the values the Sprintf was given
TransformOperator(scheme, op) ==
    IF op.ColorSpace = "rgb" THEN transformRGB(scheme, op)
    ELSE IF op.ColorSpace = "gray" THEN transformGray(scheme, op)
    ELSE IF op.ColorSpace = "cmyk" THEN transformCMYK(scheme, op)
    ELSE [branch |-> "unknown", vals |-> <<>>, keyword |-> op.Operator,
          text |-> op.FullMatch]

----------------------------------------------------------------------------
(* direct/parser.go: the six patterns of NewParser and their matching.     *)
(* Positions are 0-based byte offsets, as the regexp package reports them. *)

\* the character at position i, or "" at the end of the text
At(s, i) == IF i >= 0 /\ i < Len(s) THEN s[i + 1] ELSE ""

RECURSIVE SkipDigits(_, _)
SkipDigits(s, i) == IF IsDigit(At(s, i)) THEN SkipDigits(s, i + 1) ELSE i

RECURSIVE SkipSpaces(_, _)
SkipSpaces(s, i) == IF IsSpace(At(s, i)) THEN SkipSpaces(s, i + 1) ELSE i

\* num = [-+]?(?:\d+\.?\d*|\.\d+) at position i: the end of the match, or -1.
\* Every quantifier is greedy and the token that follows a numeral in each
\* pattern is \s+, so the only match that can be continued is the longest.
NumEnd(s, i) ==
    LET afterPoint(j1) == SkipDigits(s, IF At(s, j1) = "." THEN j1 + 1 ELSE j1)
        unsigned(j) ==
            IF IsDigit(At(s, j))
            THEN afterPoint(SkipDigits(s, j))
            ELSE IF At(s, j) = "." /\ IsDigit(At(s, j + 1))
                 THEN SkipDigits(s, j + 1)
                 ELSE -1
    IN  unsigned(IF At(s, i) \in {"-", "+"} THEN i + 1 ELSE i)

\* ws = \s+ at position i: the end of the match, or -1
WsEnd(s, i) == IF IsSpace(At(s, i)) THEN SkipSpaces(s, i) ELSE -1

\* \b after a keyword that ends just before position i
WordBoundaryAt(s, i) == ~IsWordChar(At(s, i))

\* the keyword alternatives at position i: the end of the match, or -1
KeywordEnd(kw, s, i) ==
    CASE kw = "rg"  -> IF i + 2 <= Len(s) /\ Slice(s, i, i + 2) \in {KwFillRGB, KwStrokeRGB}
                       THEN i + 2 ELSE -1
      [] kw = "g"   -> IF At(s, i) \in {"g", "G"} /\ WordBoundaryAt(s, i + 1)
                       THEN i + 1 ELSE -1
      [] kw = "k"   -> IF At(s, i) \in {"k", "K"} THEN i + 1 ELSE -1
      [] kw = "scn" -> IF i + 2 <= Len(s) /\ Slice(s, i, i + 2) = KwSc
                       THEN IF At(s, i + 2) = "n" /\ WordBoundaryAt(s, i + 3)
                            THEN i + 3
                            ELSE IF WordBoundaryAt(s, i + 2) THEN i + 2 ELSE -1
                       ELSE IF i + 2 <= Len(s) /\ Slice(s, i, i + 2) = KwSC
                            THEN IF At(s, i + 2) = "N" /\ WordBoundaryAt(s, i + 3)
                                 THEN i + 3
                                 ELSE IF WordBoundaryAt(s, i + 2) THEN i + 2 ELSE -1
                            ELSE -1

\* (num) ws, n times from position i: the numerals' <<start, end>> pairs
\* followed by the position reached, or <<>> when the text does not match
RECURSIVE NumsMatch(_, _, _)
NumsMatch(s, i, n) ==
    LET cons(e, rest) == IF rest = <<>> THEN <<>> ELSE <<<<i, e>>>> \o rest
        afterWs(e, w) == cons(e, IF w < 0 THEN <<>> ELSE NumsMatch(s, w, n - 1))
        afterNum(e) == afterWs(e, IF e < 0 THEN -1 ELSE WsEnd(s, e))
    IN  IF n = 0 THEN <<i>> ELSE afterNum(NumEnd(s, i))

\* one pattern at position i: [start, end, nums, kw] or the record with
\* end = -1 when it does not match there
NoMatch == [start |-> -1, end |-> -1, nums |-> <<>>, kw |-> <<>>]

MatchAt(pat, s, i) ==
    LET match(ns, k, e) ==
            IF e < 0 THEN NoMatch
            ELSE [start |-> i, end |-> e, nums |-> SubSeq(ns, 1, pat.n),
                  kw |-> <<k, e>>]
        atKeyword(ns, k) ==
            match(ns, k, IF k < 0 THEN -1 ELSE KeywordEnd(pat.kw, s, k))
        afterNums(ns) == atKeyword(ns, IF ns = <<>> THEN -1 ELSE ns[pat.n + 1])
    IN  afterNums(NumsMatch(s, i, pat.n))

\* FindAllStringSubmatchIndex(content, -1): leftmost matches, each search
\* starting where the previous match ended
RECURSIVE FindAllFrom(_, _, _)
FindAllFrom(pat, s, i) ==
    LET next(m) == IF m.end < 0 THEN FindAllFrom(pat, s, i + 1)
                   ELSE <<m>> \o FindAllFrom(pat, s, m.end)
    IN  IF i >= Len(s) THEN <<>> ELSE next(MatchAt(pat, s, i))

FindAll(pat, s) == FindAllFrom(pat, s, 0)

rgbPattern == [n |-> 3, kw |-> "rg"]

grayPattern == [n |-> 1, kw |-> "g"]

cmykPattern == [n |-> 4, kw |-> "k"]

scRgbPattern == [n |-> 3, kw |-> "scn"]

scGrayPattern == [n |-> 1, kw |-> "scn"]

scCmykPattern == [n |-> 4, kw |-> "scn"]

----------------------------------------------------------------------------
(* direct/parser.go: FindColorOperators and ReplaceColorOperators *)

\* MakeOperator that reads IsStroke off the fill keywords
MakeOperatorFillIsStroke(content, m, space) ==
    LET make(operator) ==
            [FullMatch  |-> Slice(content, m.start, m.end),
             Values     |-> [j \in 1..Len(m.nums) |->
                                Slice(content, m.nums[j][1], m.nums[j][2])],
             Operator   |-> operator,
             ColorSpace |-> space,
             IsStroke   |-> operator \in {KwFillRGB, KwFillGray, KwFillCMYK,
                                          KwSc, KwScn},
             StartPos   |-> m.start,
             EndPos     |-> m.end]
    IN  make(Slice(content, m.kw[1], m.kw[2]))

MakeOperator(content, m, space) ==
    LET make(operator) ==
            [FullMatch  |-> Slice(content, m.start, m.end),
             Values     |-> [j \in 1..Len(m.nums) |->
                                Slice(content, m.nums[j][1], m.nums[j][2])],
             Operator   |-> operator,
             ColorSpace |-> space,
             IsStroke   |-> operator \in {KwStrokeRGB, KwStrokeGray, KwStrokeCMYK,
                                          KwSC, KwSCN},
             StartPos   |-> m.start,
             EndPos     |-> m.end]
    IN  make(Slice(content, m.kw[1], m.kw[2]))

RECURSIVE MakeOperators(_, _, _)
MakeOperators(content, ms, space) ==
    IF ms = <<>> THEN <<>>
    ELSE <<MakeOperator(content, Head(ms), space)>>
         \o MakeOperators(content, Tail(ms), space)

\* the lookback guard dropping every match that does not start the text
PrevCharExists(content, m) == m.start > 0

\* "Skip if this is part of an RGB/CMYK match": the match is dropped when the
\* character before it is a digit or a point
PrevCharIsNumeric(content, m) ==
    m.start > 0 /\ (IsDigit(At(content, m.start - 1)) \/ At(content, m.start - 1) = ".")

RECURSIVE DropGuarded(_, _)
DropGuarded(content, ms) ==
    IF ms = <<>> THEN <<>>
    ELSE IF PrevCharIsNumeric(content, Head(ms))
         THEN DropGuarded(content, Tail(ms))
         ELSE <<Head(ms)>> \o DropGuarded(content, Tail(ms))

\* FindColorOperators with the g/G pass and the one-operand sc pass exchanged
FindColorOperatorsScFirst(content) ==
    MakeOperators(content, FindAll(rgbPattern, content), "rgb")
    \o MakeOperators(content, DropGuarded(content, FindAll(scGrayPattern, content)), "gray")
    \o MakeOperators(content, FindAll(cmykPattern, content), "cmyk")
    \o MakeOperators(content, FindAll(scRgbPattern, content), "rgb")
    \o MakeOperators(content, DropGuarded(content, FindAll(grayPattern, content)), "gray")
    \o MakeOperators(content, FindAll(scCmykPattern, content), "cmyk")

\* FindColorOperators reporting a text without a match as one gray operator
FindColorOperatorsWholeText(content) ==
    LET orWhole(found) ==
            IF found # <<>> THEN found
            ELSE <<[FullMatch |-> content, Values |-> <<<<"0">>>>,
                    Operator |-> KwFillGray, ColorSpace |-> "gray",
                    IsStroke |-> FALSE, StartPos |-> 0, EndPos |-> Len(content)]>>
    IN  orWhole(
            MakeOperators(content, FindAll(rgbPattern, content), "rgb")
            \o MakeOperators(content, DropGuarded(content, FindAll(grayPattern, content)), "gray")
            \o MakeOperators(content, FindAll(cmykPattern, content), "cmyk")
            \o MakeOperators(content, FindAll(scRgbPattern, content), "rgb")
            \o MakeOperators(content, DropGuarded(content, FindAll(scGrayPattern, content)), "gray")
            \o MakeOperators(content, FindAll(scCmykPattern, content), "cmyk"))

FindColorOperators(content) ==
    MakeOperators(content, FindAll(rgbPattern, content), "rgb")
    \o MakeOperators(content, DropGuarded(content, FindAll(grayPattern, content)), "gray")
    \o MakeOperators(content, FindAll(cmykPattern, content), "cmyk")
    \o MakeOperators(content, FindAll(scRgbPattern, content), "rgb")
    \o MakeOperators(content, DropGuarded(content, FindAll(scGrayPattern, content)), "gray")
    \o MakeOperators(content, FindAll(scCmykPattern, content), "cmyk")

\* strings.ReplaceAll(s, old, new) for a non-empty old
RECURSIVE ReplaceAllFrom(_, _, _, _)
ReplaceAllFrom(s, old, new, i) ==
    IF i >= Len(s) THEN <<>>
    ELSE IF OccursAt(s, old, i)
         THEN new \o ReplaceAllFrom(s, old, new, i + Len(old))
         ELSE <<s[i + 1]>> \o ReplaceAllFrom(s, old, new, i + 1)

ReplaceAll(s, old, new) == ReplaceAllFrom(s, old, new, 0)

\* ReplaceColorOperators with the replacements map visited in the given
\* order of its keys (Go leaves the order of a map range unspecified)
RECURSIVE ReplaceColorOperators(_, _, _)
ReplaceColorOperators(content, replacements, order) ==
    IF order = <<>> THEN content
    ELSE ReplaceColorOperators(
             ReplaceAll(content, Head(order), replacements[Head(order)]),
             replacements, Tail(order))

----------------------------------------------------------------------------
(* raster/inverter.go: the rewrite of one pixel.  The functions that the   *)
(* raster package defines under the same names as the direct package carry *)
(* the suffix 8 here (they take or return 8-bit channels).                 *)

\* uint8(x) for a float64 x in [0, 256): truncation
ToUint8(x) == (x.n \div x.d) % 256

\* uint8(v >> 8) for the 16-bit channel color.RGBA.RGBA() returns for c8
Channel8(c8) == ((c8 * 257) \div 256) % 256

getSaturation8(r, g, b) ==
    LET sat(max, min, l) ==
            IF max = min THEN R0
            ELSE IF RLe(l, Dec(1, 2))
                 THEN RDiv(RSub(max, min), RAdd(max, min))
                 ELSE RDiv(RSub(max, min), RSub(RSub(RInt(2), max), min))
        ofRange(max, min) == sat(max, min, RDiv(RAdd(max, min), RInt(2)))
        ofFloats(rf, gf, bf) == ofRange(Max3(rf, gf, bf), Min3(rf, gf, bf))
    IN  ofFloats(Rat(r, 255), Rat(g, 255), Rat(b, 255))

getLightness8(r, g, b) ==
    LET ofFloats(rf, gf, bf) ==
            RDiv(RAdd(Max3(rf, gf, bf), Min3(rf, gf, bf)), RInt(2))
    IN  ofFloats(Rat(r, 255), Rat(g, 255), Rat(b, 255))

\* returns <<h, s, l>>
rgbToHSL8(r, g, b) ==
    LET s(max, min, l, d) ==
            IF RGt(l, Dec(1, 2))
            THEN RDiv(d, RSub(RSub(RInt(2), max), min))
            ELSE RDiv(d, RAdd(max, min))
        wrap(h0, gf, bf) == IF RLt(gf, bf) THEN RAdd(h0, RInt(6)) ELSE h0
        h6(rf, gf, bf, max, d) ==
            IF max = rf
            THEN wrap(RDiv(RSub(gf, bf), d), gf, bf)
            ELSE IF max = gf
                 THEN RAdd(RDiv(RSub(bf, rf), d), RInt(2))
                 ELSE RAdd(RDiv(RSub(rf, gf), d), RInt(4))
        hsl(rf, gf, bf, max, min, l, d) ==
            IF max = min THEN <<R0, R0, l>>
            ELSE <<RDiv(h6(rf, gf, bf, max, d), RInt(6)), s(max, min, l, d), l>>
        ofRange(rf, gf, bf, max, min) ==
            hsl(rf, gf, bf, max, min, RDiv(RAdd(max, min), RInt(2)),
                RSub(max, min))
        ofFloats(rf, gf, bf) ==
            ofRange(rf, gf, bf, Max3(rf, gf, bf), Min3(rf, gf, bf))
    IN  ofFloats(Rat(r, 255), Rat(g, 255), Rat(b, 255))

\* returns 8-bit <<r, g, b>>
hslToRGB8(h, s, l) ==
    LET gray3(gray) == <<gray, gray, gray>>
        rgb(p, q) ==
            <<ToUint8(RMul(hueToRGB(p, q, RAdd(h, Rat(1, 3))), RInt(255))),
              ToUint8(RMul(hueToRGB(p, q, h), RInt(255))),
              ToUint8(RMul(hueToRGB(p, q, RSub(h, Rat(1, 3))), RInt(255)))>>
        withQ(q) == rgb(RSub(RMul(RInt(2), l), q), q)
    IN  IF s = R0
        THEN gray3(ToUint8(RMul(l, RInt(255))))
        ELSE withQ(IF RLt(l, Dec(1, 2))
                   THEN RMul(l, RAdd(R1, s))
                   ELSE RSub(RAdd(l, s), RMul(l, s)))

RGBA(r, g, b, a) == [R |-> r, G |-> g, B |-> b, A |-> a]

\* invertDocumentColor with the background segment starting at 0.95
invertDocumentColorAbove095(sch, r, g, b, a, lightness) ==
    LET bg  == sch.Background
        txt == sch.Text
        pixel8(newR, newG, newB) ==
            RGBA(ToUint8(RMul(newR, RInt(255))),
                 ToUint8(RMul(newG, RInt(255))),
                 ToUint8(RMul(newB, RInt(255))), a)
        toBackground(factor) ==
            pixel8(RAdd(txt.R, RMul(factor, RSub(bg.R, txt.R))),
                   RAdd(txt.G, RMul(factor, RSub(bg.G, txt.G))),
                   RAdd(txt.B, RMul(factor, RSub(bg.B, txt.B))))
        toMidGray(factor) ==
            pixel8(RSub(txt.R, RMul(factor, RSub(txt.R, MidGray))),
                   RSub(txt.G, RMul(factor, RSub(txt.G, MidGray))),
                   RSub(txt.B, RMul(factor, RSub(txt.B, MidGray))))
        gray3(inverted) == RGBA(inverted, inverted, inverted, a)
    IN  IF RGt(lightness, Dec(95, 100))
        THEN RGBA(bg.R8, bg.G8, bg.B8, a)
        ELSE IF RGt(lightness, Dec(7, 10))
             THEN toBackground(RDiv(RSub(lightness, Dec(7, 10)), Dec(2, 10)))
             ELSE IF RLt(lightness, Dec(15, 100))
                  THEN RGBA(txt.R8, txt.G8, txt.B8, a)
                  ELSE IF RLt(lightness, Dec(4, 10))
                       THEN toMidGray(RDiv(lightness, Dec(4, 10)))
                       ELSE gray3(ToUint8(RMul(RSub(R1, lightness), RInt(255))))

invertDocumentColor(sch, r, g, b, a, lightness) ==
    LET bg  == sch.Background
        txt == sch.Text
        pixel8(newR, newG, newB) ==
            RGBA(ToUint8(RMul(newR, RInt(255))),
                 ToUint8(RMul(newG, RInt(255))),
                 ToUint8(RMul(newB, RInt(255))), a)
        toBackground(factor) ==
            pixel8(RAdd(txt.R, RMul(factor, RSub(bg.R, txt.R))),
                   RAdd(txt.G, RMul(factor, RSub(bg.G, txt.G))),
                   RAdd(txt.B, RMul(factor, RSub(bg.B, txt.B))))
        toMidGray(factor) ==
            pixel8(RSub(txt.R, RMul(factor, RSub(txt.R, MidGray))),
                   RSub(txt.G, RMul(factor, RSub(txt.G, MidGray))),
                   RSub(txt.B, RMul(factor, RSub(txt.B, MidGray))))
        gray3(inverted) == RGBA(inverted, inverted, inverted, a)
    IN  IF RGt(lightness, Dec(9, 10))
        THEN RGBA(bg.R8, bg.G8, bg.B8, a)
        ELSE IF RGt(lightness, Dec(7, 10))
             THEN toBackground(RDiv(RSub(lightness, Dec(7, 10)), Dec(2, 10)))
             ELSE IF RLt(lightness, Dec(15, 100))
                  THEN RGBA(txt.R8, txt.G8, txt.B8, a)
                  ELSE IF RLt(lightness, Dec(4, 10))
                       THEN toMidGray(RDiv(lightness, Dec(4, 10)))
                       ELSE gray3(ToUint8(RMul(RSub(R1, lightness), RInt(255))))

\* adjustColorfulPixel with the constants of the direct package's
\* adjustColorfulRGB (0.55, 0.85 and 1.15)
adjustColorfulPixelContentConstants(r, g, b, a, lightness) ==
    LET newL(l) == IF RLt(l, Dec(55, 100))
                   THEN RAdd(Dec(55, 100), RMul(RDiv(l, Dec(55, 100)), Dec(2, 10)))
                   ELSE IF RGt(l, Dec(85, 100))
                        THEN RAdd(Dec(7, 10), RMul(RSub(l, Dec(85, 100)), Dec(5, 10)))
                        ELSE l
        newS(s) == RMin(R1, RMul(s, Dec(115, 100)))
        pixel8(new) == RGBA(new[1], new[2], new[3], a)
        adjust(hsl) == pixel8(hslToRGB8(hsl[1], newS(hsl[2]), newL(hsl[3])))
    IN  adjust(rgbToHSL8(r, g, b))

\* the lightness argument is not used
adjustColorfulPixel(r, g, b, a, lightness) ==
    LET newL(l) == IF RGt(l, Dec(7, 10))
                   THEN RAdd(Dec(5, 10), RMul(RSub(l, Dec(7, 10)), Dec(5, 10)))
                   ELSE IF RLt(l, Dec(3, 10))
                        THEN RAdd(Dec(3, 10), RMul(l, Dec(3, 10)))
                        ELSE l
        newS(s) == RMin(R1, RMul(s, Dec(11, 10)))
        pixel8(new) == RGBA(new[1], new[2], new[3], a)
        adjust(hsl) == pixel8(hslToRGB8(hsl[1], newS(hsl[2]), newL(hsl[3])))
    IN  adjust(rgbToHSL8(r, g, b))

\* smartInvertPixel writing every pixel opaque
smartInvertPixelOpaque(sch, c) ==
    LET byColor(r8, g8, b8, a8, saturation, lightness) ==
            IF RLt(saturation, Dec(15, 100))
            THEN [branch |-> "document",
                  color |-> invertDocumentColor(sch, r8, g8, b8, a8, lightness)]
            ELSE [branch |-> "colorful",
                  color |-> adjustColorfulPixel(r8, g8, b8, a8, lightness)]
        ofChannels(r8, g8, b8, a8) ==
            byColor(r8, g8, b8, a8, getSaturation8(r8, g8, b8),
                    getLightness8(r8, g8, b8))
    IN  ofChannels(Channel8(c.R), Channel8(c.G), Channel8(c.B), 255)

\* smartInvertPixel on a color.RGBA pixel: which branch ran and the new pixel
smartInvertPixel(sch, c) ==
    LET byColor(r8, g8, b8, a8, saturation, lightness) ==
            IF RLt(saturation, Dec(15, 100))
            THEN [branch |-> "document",
                  color |-> invertDocumentColor(sch, r8, g8, b8, a8, lightness)]
            ELSE [branch |-> "colorful",
                  color |-> adjustColorfulPixel(r8, g8, b8, a8, lightness)]
        ofChannels(r8, g8, b8, a8) ==
            byColor(r8, g8, b8, a8, getSaturation8(r8, g8, b8),
                    getLightness8(r8, g8, b8))
    IN  ofChannels(Channel8(c.R), Channel8(c.G), Channel8(c.B), Channel8(c.A))

----------------------------------------------------------------------------------------------------------------------------------------------------
(* InvertImage: the pixel loop over an image *)

\* image.Rectangle: Min inclusive, Max exclusive
Rectangle(x0, y0, x1, y1) ==
    [Min |-> [X |-> x0, Y |-> y0], Max |-> [X |-> x1, Y |-> y1]]

\* the points <<x, y>> inside a rectangle
PointsIn(r) == (r.Min.X .. r.Max.X - 1) \X (r.Min.Y .. r.Max.Y - 1)

\* image.NewRGBA: every pixel the zero colour
NewRGBA(r) == [Rect |-> r, Pix |-> [p \in PointsIn(r) |-> RGBA(0, 0, 0, 0)]]

\* img.At(x, y); the zero colour outside the bounds
ImageAt(m, x, y) ==
    IF <<x, y>> \in PointsIn(m.Rect) THEN m.Pix[<<x, y>>] ELSE RGBA(0, 0, 0, 0)

\* result.ImageSet(x, y, c); nothing outside the bounds
ImageSet(m, x, y, c) ==
    IF <<x, y>> \in PointsIn(m.Rect) THEN [m EXCEPT !.Pix[<<x, y>>] = c] ELSE m

\* the loop body clearing the pixel to the right as well
InvertPixelAtClearingNext(sch, image, res, x, y) ==
    ImageSet(ImageSet(res, x + 1, y, RGBA(0, 0, 0, 0)),
             x, y, smartInvertPixel(sch, ImageAt(image, x, y)).color)

\* the body of the loop at (x, y)
InvertPixelAt(sch, image, res, x, y) ==
    ImageSet(res, x, y, smartInvertPixel(sch, ImageAt(image, x, y)).color)

\* the inner loop, from column x of row y
RECURSIVE InvertRow(_, _, _, _, _)
InvertRow(sch, image, res, x, y) ==
    IF x < image.Rect.Max.X
    THEN InvertRow(sch, image, InvertPixelAt(sch, image, res, x, y), x + 1, y)
    ELSE res

\* the outer loop, from row y
RECURSIVE InvertRows(_, _, _, _)
InvertRows(sch, image, res, y) ==
    IF y < image.Rect.Max.Y
    THEN InvertRows(sch, image, InvertRow(sch, image, res, image.Rect.Min.X, y),
                    y + 1)
    ELSE res

InvertImage(sch, image) ==
    InvertRows(sch, image, NewRGBA(image.Rect), image.Rect.Min.Y)

----------------------------------------------------------------------------
(* State *)

VARIABLES
    scheme,        \* the Scheme the Transformer / Inverter was constructed with
    pc,            \* "ready": the call has its argument; "done": it has returned
    content,       \* the decoded content text handed to the scan
    operators,     \* what FindColorOperators returned for it
    replacements,  \* the map from matched text to replacement text
    newContent,    \* the text after ReplaceColorOperators
    count,         \* the number of changed operators reported
    op,            \* the operator handed to TransformOperator
    newOp,         \* what that call returned
    pixel,         \* the pixel handed to smartInvertPixel
    outPixel,      \* what that call returned
    img,           \* the image handed to InvertImage
    result,        \* the image that call returned
    request,       \* the scheme name or the two colours asked for
    err,           \* the error the scheme constructor returned ("" for nil)
    hslIn,         \* the <<h, s, l>> handed to hslToRGB
    roundTrip,     \* rgbToHSL of the colour hslToRGB returned for it
    inFile,        \* the context ReadContext parsed from the input file
    ctx,           \* the context Convert works on
    run,           \* Convert's counters, loop positions and warnings
    outFile        \* the context written to the output file, if any

vars ==
    <<scheme, pc, content, operators, replacements, newContent, count, op, newOp,
      pixel, outPixel, img, result, request, err, hslIn, roundTrip,
      inFile, ctx, run, outFile>>

NoOp ==
    [FullMatch |-> <<>>, Values |-> <<>>, Operator |-> <<>>, ColorSpace |-> "",
     IsStroke |-> FALSE, StartPos |-> 0, EndPos |-> 0]

NoResult == [branch |-> "", vals |-> <<>>, keyword |-> <<>>, text |-> <<>>]

ContentIdle ==
    /\ content = <<>>
    /\ operators = <<>>
    /\ replacements = <<>>
    /\ newContent = <<>>
    /\ count = 0

TransformIdle == op = NoOp /\ newOp = NoResult

NoPixel == RGBA(-1, -1, -1, -1)

NoPixelResult == [branch |-> "", color |-> NoPixel]

RasterIdle == pixel = NoPixel /\ outPixel = NoPixelResult

NoImage == [Rect |-> Rectangle(0, 0, 0, 0), Pix |-> <<>>]

ImageIdle == img = NoImage /\ result = NoImage

NoRequest == [kind |-> "none", name |-> <<>>, bgHex |-> <<>>, textHex |-> <<>>]

SchemeIdle == request = NoRequest /\ err = ""

NoHSL == <<>>

HSLIdle == hslIn = NoHSL /\ roundTrip = NoHSL

NoContext == [pages |-> <<>>, objects |-> <<>>]

NoRun ==
    [pageNum |-> 0, bgNum |-> 0, pagesProcessed |-> 0, colorsTransformed |-> 0,
     pageErrs |-> <<>>, skipped |-> <<>>, bgErrs |-> <<>>, err |-> ""]

ConvertIdle ==
    inFile = NoContext /\ ctx = NoContext /\ run = NoRun /\ outFile = NoContext

----------------------------------------------------------------------------
(* The content pipeline on one content text: processContentStream from the *)
(* scan to the substitution                                                *)

\* the number of words of a content text
MaxWords == 5

ContentWords == {<<"0">>, <<"1", ".", "0">>, <<"g">>, <<"r", "g">>, <<"s", "c">>}

RECURSIVE JoinWords(_)
JoinWords(ws) ==
    IF ws = <<>> THEN <<>>
    ELSE IF Len(ws) = 1 THEN Head(ws)
    ELSE Head(ws) \o <<" ">> \o JoinWords(Tail(ws))

\* the number of whole operators of a content text made of operators
MaxOps == 2

\* operators of every family, fill and stroke, each as its words
OperatorWords ==
    {<<<<"0", ".", "5">>, <<"0", ".", "2">>, <<"0", ".", "1">>, <<"r", "g">>>>,
     <<<<"0", ".", "3">>, <<"g">>>>,
     <<<<"0">>, <<"0">>, <<"0">>, <<"R", "G">>>>,
     <<<<"1">>, <<"G">>>>,
     <<<<"0">>, <<"0">>, <<"0">>, <<"1">>, <<"k">>>>,
     <<<<"0">>, <<"1">>, <<"1">>, <<"0">>, <<"K">>>>,
     <<<<"0", ".", "5">>, <<"S", "C", "N">>>>,
     <<<<"1">>, <<"1">>, <<"1">>, <<"s", "c", "n">>>>}

OperatorTexts == {JoinWords(ws) : ws \in OperatorWords}

\* the content texts: every text of at most MaxWords words, and every text
\* of at most MaxOps whole operators
Contents ==
    {JoinWords(ws) : ws \in UNION {[1..k -> ContentWords] : k \in 0..MaxWords}}
    \cup {JoinWords(ts) : ts \in UNION {[1..k -> OperatorTexts] : k \in 0..MaxOps}}

ContentSchemes == {SchemeDark, SchemeSepia}

\* the text TransformOperator returns for each operator, in order
RECURSIVE TransformAll(_, _)
TransformAll(sch, ops) ==
    IF ops = <<>> THEN <<>>
    ELSE <<TransformOperator(sch, Head(ops)).text>> \o TransformAll(sch, Tail(ops))

\* the replacements map as the loop over the operators leaves it: a later
\* operator with the same matched text overwrites an earlier one
RECURSIVE BuildReplacements(_, _)
BuildReplacements(ops, newOps) ==
    IF ops = <<>> THEN <<>>
    ELSE LET n    == Len(ops)
             rest == BuildReplacements(SubSeq(ops, 1, n - 1), SubSeq(newOps, 1, n - 1))
             key  == ops[n].FullMatch
         IN  IF newOps[n] = key THEN rest
             ELSE [k \in DOMAIN rest \cup {key} |->
                      IF k = key THEN newOps[n] ELSE rest[k]]

\* the orders in which a range over the map can visit its keys
KeyOrders(keys) ==
    {o \in [1..Cardinality(keys) -> keys] :
        \A i, j \in 1..Cardinality(keys) : o[i] = o[j] => i = j}

ScanAndRewrite ==
    /\ pc = "ready"
    /\ op = NoOp
    /\ \E ops \in {FindColorOperators(content)} :
       \E repl \in {BuildReplacements(ops, TransformAll(scheme, ops))} :
           /\ operators' = ops
           /\ replacements' = repl
           /\ IF ops = <<>> \/ DOMAIN repl = {}
              THEN newContent' = content /\ count' = 0
              ELSE \E order \in KeyOrders(DOMAIN repl) :
                       /\ newContent' = ReplaceColorOperators(content, repl, order)
                       /\ count' = Cardinality(DOMAIN repl)
    /\ pc' = "done"
    /\ UNCHANGED <<scheme, content, op, newOp, pixel, outPixel, img, result, request, err,
                   hslIn, roundTrip,
                   inFile, ctx, run, outFile>>

InitContent ==
    /\ scheme \in ContentSchemes
    /\ pc = "ready"
    /\ content \in Contents
    /\ operators = <<>>
    /\ replacements = <<>>
    /\ newContent = <<>>
    /\ count = 0
    /\ TransformIdle
    /\ RasterIdle
    /\ ImageIdle
    /\ SchemeIdle
    /\ HSLIdle
    /\ ConvertIdle

NextContent == ScanAndRewrite

SpecContent == InitContent /\ [][NextContent]_vars

----------------------------------------------------------------------------
(* One colour through either pipeline: TransformOperator on one operator,  *)
(* or smartInvertPixel on one pixel                                        *)

Numerals ==
    {<<"0">>, <<"0", ".", "1", "5">>, <<"0", ".", "1", "7">>, <<"0", ".", "2", "3">>,
     <<"0", ".", "3">>, <<"0", ".", "4">>, <<"0", ".", "7">>, <<"0", ".", "8">>,
     <<"0", ".", "9">>, <<"1">>}

CMYKNumerals == {<<"0">>, <<"0", ".", "2">>, <<"0", ".", "5">>, <<"0", ".", "9">>, <<"1">>}

\* an operator as FindColorOperators reports it for the text "v1 ... vn kw"
InputOperator(space, vals, kw) ==
    [FullMatch  |-> JoinWords(vals \o <<kw>>),
     Values     |-> vals,
     Operator   |-> kw,
     ColorSpace |-> space,
     IsStroke   |-> kw \in {KwStrokeRGB, KwStrokeGray, KwStrokeCMYK, KwSC, KwSCN},
     StartPos   |-> 0,
     EndPos     |-> Len(JoinWords(vals \o <<kw>>))]

OperatorInputs ==
    {InputOperator("rgb", vals, kw) :
        vals \in [1..3 -> Numerals], kw \in {KwFillRGB, KwStrokeRGB, KwScn}}
    \cup {InputOperator("gray", vals, kw) :
        vals \in [1..1 -> Numerals], kw \in {KwFillGray, KwStrokeGray, KwSc, KwSCN}}
    \cup {InputOperator("cmyk", vals, kw) :
        vals \in [1..4 -> CMYKNumerals], kw \in {KwFillCMYK, KwStrokeCMYK, KwSc, KwSCN}}

\* texts ParseFloat rejects: no digits, a second point, a letter
RejectedNumerals == {<<>>, <<"1", ".", "2", ".", "3">>, <<"x">>}

\* operators built by the caller, some operands of which ParseFloat rejects
RejectedInputs ==
    {InputOperator("rgb", vals, kw) :
        vals \in [1..3 -> {<<"0">>, <<"0", ".", "4">>} \cup RejectedNumerals]
                     \ [1..3 -> {<<"0">>, <<"0", ".", "4">>}],
        kw \in {KwFillRGB, KwStrokeRGB}}
    \cup {InputOperator("gray", vals, kw) :
        vals \in [1..1 -> RejectedNumerals], kw \in {KwFillGray, KwStrokeGray}}
    \cup {InputOperator("cmyk", vals, kw) :
        vals \in [1..4 -> {<<"0", ".", "2">>} \cup RejectedNumerals]
                     \ [1..4 -> {<<"0", ".", "2">>}],
        kw \in {KwFillCMYK, KwStrokeCMYK}}

PixelLevels == {0, 20, 85, 115, 128, 204, 220, 240, 255}

PixelAlphas == {128, 255}

PixelInputs ==
    {RGBA(r, g, b, a) : r \in PixelLevels, g \in PixelLevels, b \in PixelLevels,
                        a \in PixelAlphas}

ColorSchemes == {SchemeDark, SchemeSepia}

ApplyTransformOperator ==
    /\ pc = "ready"
    /\ op # NoOp
    /\ newOp' = TransformOperator(scheme, op)
    /\ pc' = "done"
    /\ UNCHANGED <<scheme, content, operators, replacements, newContent, count,
                   op, pixel, outPixel, img, result, request, err,
                   hslIn, roundTrip,
                   inFile, ctx, run, outFile>>

ApplySmartInvertPixel ==
    /\ pc = "ready"
    /\ pixel # NoPixel
    /\ outPixel' = smartInvertPixel(scheme, pixel)
    /\ pc' = "done"
    /\ UNCHANGED <<scheme, content, operators, replacements, newContent, count,
                   op, newOp, pixel, img, result, request, err,
                   hslIn, roundTrip,
                   inFile, ctx, run, outFile>>

InitColor ==
    /\ scheme \in ColorSchemes
    /\ pc = "ready"
    /\ ContentIdle
    /\ newOp = NoResult
    /\ outPixel = NoPixelResult
    /\ ImageIdle
    /\ SchemeIdle
    /\ HSLIdle
    /\ ConvertIdle
    /\ \/ op \in OperatorInputs \cup RejectedInputs /\ pixel = NoPixel
       \/ op = NoOp /\ pixel \in PixelInputs

NextColor == ApplyTransformOperator \/ ApplySmartInvertPixel

SpecColor == InitColor /\ [][NextColor]_vars

----------------------------------------------------------------------------------------------------------------------------------------------------
(* InvertImage on one image *)

\* the number of pixels of an image
MaxPixels == 4

ImagePixels == {RGBA(255, 255, 255, 255), RGBA(220, 20, 20, 128)}

ImageOrigins == {<<0, 0>>, <<1, 2>>}

ImageSizes == {s \in (1..MaxPixels) \X (1..MaxPixels) : s[1] * s[2] <= MaxPixels}

ImageBounds ==
    {Rectangle(o[1], o[2], o[1] + s[1], o[2] + s[2]) :
        o \in ImageOrigins, s \in ImageSizes}

ImageInputs ==
    UNION {{[Rect |-> r, Pix |-> f] : f \in [PointsIn(r) -> ImagePixels]} :
              r \in ImageBounds}

ApplyInvertImage ==
    /\ pc = "ready"
    /\ img # NoImage
    /\ result' = InvertImage(scheme, img)
    /\ pc' = "done"
    /\ UNCHANGED <<scheme, content, operators, replacements, newContent, count,
                   op, newOp, pixel, outPixel, img, request, err,
                   hslIn, roundTrip,
                   inFile, ctx, run, outFile>>

InitImage ==
    /\ scheme \in ColorSchemes
    /\ pc = "ready"
    /\ ContentIdle
    /\ TransformIdle
    /\ RasterIdle
    /\ img \in ImageInputs
    /\ result = NoImage
    /\ SchemeIdle
    /\ HSLIdle
    /\ ConvertIdle

NextImage == ApplyInvertImage

SpecImage == InitImage /\ [][NextImage]_vars

----------------------------------------------------------------------------
(* A scheme from GetScheme or NewCustomScheme, then TransformOperator on    *)
(* one operator under it                                                   *)

SchemeNameInputs ==
    {<<"d", "a", "r", "k">>, <<"D", "A", "R", "K">>, <<"S", "e", "p", "i", "a">>,
     <<"n", "o", "r", "d">>, <<"s", "o", "l", "a", "r", "i", "z", "e", "d">>,
     <<"g", "r", "u", "v", "b", "o", "x">>, <<"d", "r", "a", "c", "u", "l", "a">>,
     <<"m", "o", "n", "o", "k", "a", "i">>, <<"l", "i", "g", "h", "t">>,
     <<"d", "a", "r", "k", " ">>, <<"c", "u", "s", "t", "o", "m">>, <<>>}

HexInputs ==
    {<<"#", "1", "a", "1", "a", "1", "a">>, <<"e", "0", "e", "0", "e", "0">>,
     <<"#", "E", "0", "e", "0", "E", "0">>, <<"f", "f", "f", "f", "f", "f">>,
     <<"#", "0", "0", "0", "0", "0", "0">>, <<"3", "3", "3", "3", "3", "3">>,
     <<"1", "e", "1", "9", "1", "4">>,
     <<"#", "f", "f", "f">>, <<"1", "a", "1", "a", "1", "g">>,
     <<"#", "#", "1", "a", "1", "a", "1", "a">>, <<"+", "a", "1", "a", "1", "a">>,
     <<"1", "a", "1", "a", "1", "a", "0">>, <<"1", "a", "1", "a", "1", "a", "#">>,
     <<>>}

Requests ==
    {[kind |-> "name", name |-> n, bgHex |-> <<>>, textHex |-> <<>>] :
        n \in SchemeNameInputs}
    \cup {[kind |-> "custom", name |-> <<>>, bgHex |-> b, textHex |-> t] :
        b \in HexInputs, t \in HexInputs}

\* operators with operands in [0,1], one or more of each family
SchemeOperators ==
    {InputOperator("gray", <<v>>, KwFillGray) : v \in Numerals}
    \cup {InputOperator("rgb", <<v, v, v>>, KwStrokeRGB) :
             v \in {<<"0", ".", "3">>, <<"1">>}}
    \cup {InputOperator("rgb", <<<<"0", ".", "9">>, <<"0">>, <<"0", ".", "4">>>>, KwFillRGB),
          InputOperator("cmyk", <<<<"0">>, <<"0">>, <<"0">>, <<"0", ".", "2">>>>, KwFillCMYK),
          InputOperator("cmyk", <<<<"0", ".", "9">>, <<"0">>, <<"0", ".", "5">>, <<"0">>>>,
                        KwStrokeCMYK)}

ApplyGetScheme ==
    /\ pc = "config"
    /\ request.kind = "name"
    /\ \E r \in {GetScheme(request.name)} :
           /\ scheme' = r.scheme
           /\ err' = r.err
           /\ pc' = IF r.err = "" THEN "ready" ELSE "failed"
    /\ UNCHANGED <<content, operators, replacements, newContent, count, op, newOp,
                   pixel, outPixel, img, result, request,
                   hslIn, roundTrip,
                   inFile, ctx, run, outFile>>

ApplyNewCustomScheme ==
    /\ pc = "config"
    /\ request.kind = "custom"
    /\ \E r \in {NewCustomScheme(request.bgHex, request.textHex)} :
           /\ scheme' = r.scheme
           /\ err' = r.err
           /\ pc' = IF r.err = "" THEN "ready" ELSE "failed"
    /\ UNCHANGED <<content, operators, replacements, newContent, count, op, newOp,
                   pixel, outPixel, img, result, request,
                   hslIn, roundTrip,
                   inFile, ctx, run, outFile>>

InitScheme ==
    /\ scheme = ZeroScheme
    /\ pc = "config"
    /\ ContentIdle
    /\ op \in SchemeOperators
    /\ newOp = NoResult
    /\ RasterIdle
    /\ ImageIdle
    /\ request \in Requests
    /\ err = ""
    /\ HSLIdle
    /\ ConvertIdle

NextScheme == ApplyGetScheme \/ ApplyNewCustomScheme \/ ApplyTransformOperator

SpecScheme == InitScheme /\ [][NextScheme]_vars

----------------------------------------------------------------------------
(* hslToRGB and back through rgbToHSL on one <<h, s, l>> *)

HueInputs ==
    {R0, Rat(1, 12), Rat(1, 6), Rat(1, 3), Rat(1, 2), Rat(7, 10), Rat(5, 6),
     Rat(999, 1000)}

SaturationInputs == {Rat(1, 1000), Rat(15, 100), Rat(1, 2), R1}

LightnessInputs ==
    {R0, Rat(1, 1000), Rat(1, 4), Rat(1, 2), Rat(3, 4), Rat(999, 1000), R1}

HSLInputs ==
    {<<h, s, l>> : h \in HueInputs, s \in SaturationInputs, l \in LightnessInputs}

\* rgbToHSL(hslToRGB(h, s, l))
HSLRoundTrip(h, s, l) ==
    LET back(rgb) == rgbToHSL(rgb[1], rgb[2], rgb[3])
    IN  back(hslToRGB(h, s, l))

ApplyHSLRoundTrip ==
    /\ pc = "ready"
    /\ hslIn # NoHSL
    /\ roundTrip' = HSLRoundTrip(hslIn[1], hslIn[2], hslIn[3])
    /\ pc' = "done"
    /\ UNCHANGED <<scheme, content, operators, replacements, newContent, count,
                   op, newOp, pixel, outPixel, img, result, request, err, hslIn,
                   inFile, ctx, run, outFile>>

InitHSL ==
    /\ scheme = ZeroScheme
    /\ pc = "ready"
    /\ ContentIdle
    /\ TransformIdle
    /\ RasterIdle
    /\ ImageIdle
    /\ SchemeIdle
    /\ hslIn \in HSLInputs
    /\ roundTrip = NoHSL
    /\ ConvertIdle

NextHSL == ApplyHSLRoundTrip

SpecHSL == InitHSL /\ [][NextHSL]_vars

----------------------------------------------------------------------------
(* direct/parser.go: the Engine.  A context is [pages, objects]: objects is *)
(* the cross-reference table, an indirect reference is an index into it.   *)
(* An object carries its decoded content and the step of the library that  *)
(* fails on it: "deref" (Dereference), "notstream" (no StreamDict),        *)
(* "decode" (Decode), "encode" (Encode), "entry" (FindTableEntryForIndRef) *)
(* or "none".                                                              *)

\* the content and count a stream's text is rewritten to: one outcome for
\* each order the range over the replacements map can take
RewriteOutcomes(sch, text) ==
    LET withRepl(ops, repl) ==
            IF ops = <<>> \/ DOMAIN repl = {}
            THEN {[content |-> text, count |-> 0]}
            ELSE {[content |-> ReplaceColorOperators(text, repl, order),
                   count |-> Cardinality(DOMAIN repl)] :
                     order \in KeyOrders(DOMAIN repl)}
        ofOps(ops) == withRepl(ops, BuildReplacements(ops, TransformAll(sch, ops)))
    IN  ofOps(FindColorOperators(text))

\* processContentStream: the outcomes [objects, count, err] ("" for nil)
processContentStream(sch, objects, ref) ==
    LET rewritten(obj, w) ==
            IF w.count = 0
            THEN [objects |-> objects, count |-> 0, err |-> ""]
            ELSE IF obj.fault = "encode"
            THEN [objects |-> objects, count |-> 0, err |-> "failed to encode stream"]
            ELSE IF obj.fault = "entry"
            THEN [objects |-> objects, count |-> 0, err |-> "could not find xref entry"]
            ELSE [objects |-> [objects EXCEPT ![ref].content = w.content],
                  count |-> w.count, err |-> ""]
    IN  IF objects[ref].fault = "deref"
        THEN {[objects |-> objects, count |-> 0, err |-> "dereference"]}
        ELSE IF objects[ref].fault \in {"notstream", "decode"}
        THEN {[objects |-> objects, count |-> 0, err |-> ""]}
        ELSE {rewritten(objects[ref], w) :
                 w \in RewriteOutcomes(sch, objects[ref].content)}

\* processPage, the calls of processContentStream on the references of a
\* page in order: the outcomes [objects, count, skipped, err], skipped
\* counting the streams that failed and err the error of the last of them.
\* A stream that fails leaves the objects and the total as they were.
RECURSIVE processItems(_, _, _, _, _, _)
processItems(sch, objects, items, total, skipped, lastErr) ==
    LET after(r) ==
            IF r.err # ""
            THEN processItems(sch, objects, Tail(items), total, skipped + 1, r.err)
            ELSE processItems(sch, r.objects, Tail(items), total + r.count, skipped,
                              lastErr)
    IN  IF items = <<>>
        THEN {[objects |-> objects, count |-> total, skipped |-> skipped,
               err |-> lastErr]}
        ELSE IF ~Head(items).isRef
        THEN processItems(sch, objects, Tail(items), total, skipped, lastErr)
        ELSE UNION {after(r) : r \in processContentStream(sch, objects, Head(items).ref)}

\* the references processPage hands to processContentStream: the one of a
\* single stream, the items of an array, none without a Contents entry
ContentsItems(page) ==
    IF page.kind = "ref" THEN <<[isRef |-> TRUE, ref |-> page.ref]>>
    ELSE IF page.kind = "array" THEN page.items
    ELSE <<>>

\* processPage reporting the error of a stream of a Contents array
processPageStrictArray(sch, context, pageNum) ==
    LET returned(page, r) ==
            [objects |-> r.objects, count |-> IF r.skipped > 0 THEN 0 ELSE r.count,
             err |-> r.err, skipped |-> 0]
    IN  IF context.pages[pageNum].dictFault
        THEN {[objects |-> context.objects, count |-> 0,
               err |-> "failed to get page dict", skipped |-> 0]}
        ELSE {returned(context.pages[pageNum], r) :
                 r \in processItems(sch, context.objects,
                                    ContentsItems(context.pages[pageNum]), 0, 0, "")}

\* processPage: the outcomes [objects, count, err, skipped]. The error of a
\* single stream is returned; the error of a stream of an array is passed
\* over by `continue` and nil is returned.
processPage(sch, context, pageNum) ==
    LET returned(page, r) ==
            IF page.kind = "ref"
            THEN [objects |-> r.objects, count |-> r.count, err |-> r.err,
                  skipped |-> 0]
            ELSE [objects |-> r.objects, count |-> r.count, err |-> "",
                  skipped |-> r.skipped]
    IN  IF context.pages[pageNum].dictFault
        THEN {[objects |-> context.objects, count |-> 0,
               err |-> "failed to get page dict", skipped |-> 0]}
        ELSE {returned(context.pages[pageNum], r) :
                 r \in processItems(sch, context.objects,
                                    ContentsItems(context.pages[pageNum]), 0, 0, "")}

\* bgContent of addPageBackground for the fallback MediaBox 0 0 612 792
bgContent ==
    <<"q", " ", "0", ".", "1", "0", "2", " ", "0", ".", "1", "0", "2", " ",
      "0", ".", "1", "0", "2", " ", "r", "g", " ", "0", ".", "0", "0", " ",
      "0", ".", "0", "0", " ", "6", "1", "2", ".", "0", "0", " ", "7", "9",
      "2", ".", "0", "0", " ", "r", "e", " ", "f", " ", "Q", " ", "0", ".",
      "8", "7", "8", " ", "0", ".", "8", "7", "8", " ", "0", ".", "8", "7",
      "8", " ", "r", "g", " ", "0", ".", "8", "7", "8", " ", "0", ".", "8",
      "7", "8", " ", "0", ".", "8", "7", "8", " ", "R", "G", "\n">>

\* prependToStream: [objects, err]
prependToStream(objects, ref, prefix) ==
    LET ofObject(obj) ==
            IF obj.fault = "deref" THEN [objects |-> objects, err |-> "dereference"]
            ELSE IF obj.fault = "notstream"
            THEN [objects |-> objects, err |-> "not a stream dict"]
            ELSE IF obj.fault = "decode" THEN [objects |-> objects, err |-> "decode"]
            ELSE IF obj.fault = "encode" THEN [objects |-> objects, err |-> "encode"]
            ELSE IF obj.fault = "entry"
            THEN [objects |-> objects, err |-> "could not find xref entry"]
            ELSE [objects |-> [objects EXCEPT ![ref].content = prefix \o obj.content],
                  err |-> ""]
    IN  ofObject(objects[ref])

\* ctx.AppendContent for a page without a Contents entry: a new stream
\* object, and the page's Contents entry referring to it
AppendContent(context, pageNum, bytes) ==
    [pages   |-> [context.pages EXCEPT ![pageNum].kind = "ref",
                                       ![pageNum].ref = Len(context.objects) + 1],
     objects |-> Append(context.objects, [fault |-> "none", content |-> bytes])]

\* addPageBackground: [context, err]
addPageBackground(context, pageNum) ==
    LET prepended(r) ==
            [context |-> [context EXCEPT !.objects = r.objects], err |-> r.err]
        ofPage(page) ==
            IF page.dictFault THEN [context |-> context, err |-> "page dict"]
            ELSE IF page.kind = "none"
            THEN [context |-> AppendContent(context, pageNum, bgContent), err |-> ""]
            ELSE IF page.kind = "ref"
            THEN prepended(prependToStream(context.objects, page.ref, bgContent))
            ELSE IF page.kind = "array" /\ Len(page.items) > 0 /\ page.items[1].isRef
            THEN prepended(prependToStream(context.objects, page.items[1].ref, bgContent))
            ELSE [context |-> context, err |-> ""]
    IN  ofPage(context.pages[pageNum])

----
(* Engine.Convert on one document, from the parsed context to the write *)

\* the number of pages of a document
MaxPages == 2

Ref(n) == [isRef |-> TRUE, ref |-> n]

\* an array item that is no indirect reference
NullItem == [isRef |-> FALSE, ref |-> 0]

PageOf(kind, ref, items) ==
    [dictFault |-> FALSE, kind |-> kind, ref |-> ref, items |-> items]

PageInputs ==
    {[dictFault |-> TRUE, kind |-> "none", ref |-> 0, items |-> <<>>],
     PageOf("none", 0, <<>>), PageOf("ref", 1, <<>>), PageOf("ref", 2, <<>>),
     PageOf("array", 0, <<>>), PageOf("array", 0, <<Ref(1)>>),
     PageOf("array", 0, <<Ref(2), Ref(1)>>), PageOf("array", 0, <<Ref(1), Ref(1)>>),
     PageOf("array", 0, <<NullItem, Ref(1)>>)}

Faults == {"none", "deref", "notstream", "decode", "encode", "entry"}

ObjectInputs ==
    {<<[fault |-> "none", content |-> c], [fault |-> f, content |-> <<"1", " ", "G">>]>> :
        c \in {<<"0", " ", "g">>, <<"B", "T">>}, f \in Faults}

ContextInputs ==
    UNION {{[pages |-> ps, objects |-> os] : ps \in [1..n -> PageInputs],
                                             os \in ObjectInputs} :
              n \in 1..MaxPages}

\* one turn of the page loop of Convert
ConvertPage ==
    /\ pc = "pages"
    /\ \E r \in processPage(scheme, ctx, run.pageNum) :
           /\ ctx' = [ctx EXCEPT !.objects = r.objects]
           /\ run' = [run EXCEPT
                         !.pageNum = @ + 1,
                         !.pagesProcessed = IF r.err = "" THEN @ + 1 ELSE @,
                         !.colorsTransformed = IF r.err = "" THEN @ + r.count ELSE @,
                         !.pageErrs = Append(@, r.err),
                         !.skipped = Append(@, r.skipped)]
    /\ pc' = IF run.pageNum = Len(ctx.pages) THEN "backgrounds" ELSE "pages"
    /\ UNCHANGED <<scheme, content, operators, replacements, newContent, count, op,
                   newOp, pixel, outPixel, img, result, request, err, hslIn,
                   roundTrip, inFile, outFile>>

\* one turn of the loop of addDarkBackgrounds
ConvertBackground ==
    /\ pc = "backgrounds"
    /\ \E r \in {addPageBackground(ctx, run.bgNum)} :
           /\ ctx' = r.context
           /\ run' = [run EXCEPT !.bgNum = @ + 1, !.bgErrs = Append(@, r.err)]
    /\ pc' = IF run.bgNum = Len(ctx.pages) THEN "write" ELSE "backgrounds"
    /\ UNCHANGED <<scheme, content, operators, replacements, newContent, count, op,
                   newOp, pixel, outPixel, img, result, request, err, hslIn,
                   roundTrip, inFile, outFile>>

\* os.Create and api.WriteContext, either of which can fail
ConvertWrite ==
    /\ pc = "write"
    /\ \E outcome \in {"", "failed to create output file", "failed to write PDF"} :
           /\ outFile' = IF outcome = "" THEN ctx ELSE NoContext
           /\ run' = [run EXCEPT !.err = outcome]
    /\ pc' = "returned"
    /\ UNCHANGED <<scheme, content, operators, replacements, newContent, count, op,
                   newOp, pixel, outPixel, img, result, request, err, hslIn,
                   roundTrip, inFile, ctx>>

InitConvert ==
    /\ scheme = SchemeDark
    /\ pc = "pages"
    /\ ContentIdle
    /\ TransformIdle
    /\ RasterIdle
    /\ ImageIdle
    /\ SchemeIdle
    /\ HSLIdle
    /\ inFile \in ContextInputs
    /\ ctx = inFile
    /\ run = [NoRun EXCEPT !.pageNum = 1, !.bgNum = 1]
    /\ outFile = NoContext

NextConvert == ConvertPage \/ ConvertBackground \/ ConvertWrite

SpecConvert == InitConvert /\ [][NextConvert]_vars

----
(* Claims about the scan and the substitution (SpecContent) *)

SpansDisjoint(a, b) == a.EndPos <= b.StartPos \/ b.EndPos <= a.StartPos

NoOverlap(ops) ==
    \A i, j \in 1..Len(ops) : i # j => SpansDisjoint(ops[i], ops[j])

\* the operator among ops that starts at position i, if any
StartsAt(ops, i) == {k \in 1..Len(ops) : ops[k].StartPos = i}

\* the text with exactly the span of each operator replaced by the text
\* TransformOperator returns for it (for operators with disjoint spans)
RECURSIVE SpanRewriteFrom(_, _, _, _)
SpanRewriteFrom(sch, text, ops, i) ==
    IF i >= Len(text) THEN <<>>
    ELSE IF StartsAt(ops, i) # {}
         THEN LET o == ops[CHOOSE k \in StartsAt(ops, i) : TRUE]
              IN  TransformOperator(sch, o).text
                  \o SpanRewriteFrom(sch, text, ops, o.EndPos)
         ELSE <<text[i + 1]>> \o SpanRewriteFrom(sch, text, ops, i + 1)

SpanRewrite(sch, text, ops) == SpanRewriteFrom(sch, text, ops, 0)

\* C1: the text produced by scanning and rewriting is the original text
\* with exactly the span [StartPos, EndPos) of each extracted operator
\* replaced by that operator's replacement; all other bytes are unchanged.
\* (Stated for scans whose spans are disjoint, where it is well defined.)
C1_SpanExactRewrite ==
    (pc = "done" /\ NoOverlap(operators))
        => newContent = SpanRewrite(scheme, content, operators)

\* C2: no two operators returned by FindColorOperators have overlapping
\* spans; a run of 3 or 4 numerals before sc/SC/scn/SCN is one operator.
C2_NoOverlappingSpans == pc = "done" => NoOverlap(operators)

\* C3 as stated: the returned sequence is ordered by ascending StartPos,
\* whatever mix of families the text contains.
C3_AscendingStartPos ==
    pc = "done" =>
        \A i, j \in 1..Len(operators) :
            i < j => operators[i].StartPos <= operators[j].StartPos

\* the pass of FindColorOperators that reports an operator
PassOf(o) ==
    LET sc == o.Operator \in {KwSc, KwScn, KwSC, KwSCN}
    IN  CASE o.ColorSpace = "rgb" /\ ~sc  -> 1
          [] o.ColorSpace = "gray" /\ ~sc -> 2
          [] o.ColorSpace = "cmyk" /\ ~sc -> 3
          [] o.ColorSpace = "rgb" /\ sc   -> 4
          [] o.ColorSpace = "gray" /\ sc  -> 5
          [] o.ColorSpace = "cmyk" /\ sc  -> 6

\* C3 amended: the sequence is the concatenation of the six passes in the
\* order rg/RG, g/G, k/K, sc-family with 3, with 1 and with 4 operands, and
\* within one pass the operators are in ascending StartPos (each starting
\* at or after the end of the one before).
C3_AscendingWithinPass ==
    pc = "done" =>
        \A i, j \in 1..Len(operators) :
            i < j =>
                \/ PassOf(operators[i]) < PassOf(operators[j])
                \/ /\ PassOf(operators[i]) = PassOf(operators[j])
                   /\ operators[i].EndPos <= operators[j].StartPos

\* C3 witness: a scan returned an operator of a later pass that starts
\* before an operator of an earlier pass
C3_Witness ==
    /\ pc = "done"
    /\ \E i, j \in 1..Len(operators) :
           /\ i < j
           /\ PassOf(operators[i]) < PassOf(operators[j])
           /\ operators[i].StartPos > operators[j].StartPos

----------------------------------------------------------------------------
(* Claims about the rewrite of one colour (SpecColor) *)

\* the operands of the operator in hand, as numbers
OpVals == [i \in 1..Len(op.Values) |-> parseFloat(op.Values[i])]

IsOp(space) == pc = "done" /\ op # NoOp /\ op.ColorSpace = space

\* the colour an rgb operator names, or a cmyk operator converted to RGB
OpRGB ==
    IF op.ColorSpace = "cmyk"
    THEN <<RMul(RSub(R1, OpVals[1]), RSub(R1, OpVals[4])),
           RMul(RSub(R1, OpVals[2]), RSub(R1, OpVals[4])),
           RMul(RSub(R1, OpVals[3]), RSub(R1, OpVals[4]))>>
    ELSE <<OpVals[1], OpVals[2], OpVals[3]>>

\* the colour of the pixel in hand, each channel as a fraction of 255
PixelRGB == <<Rat(pixel.R, 255), Rat(pixel.G, 255), Rat(pixel.B, 255)>>

\* HSL lightness and saturation of a colour <<r, g, b>>
HSLLightness(c) == RDiv(RAdd(Max3(c[1], c[2], c[3]), Min3(c[1], c[2], c[3])), RInt(2))

HSLSaturation(c) ==
    LET max == Max3(c[1], c[2], c[3])
        min == Min3(c[1], c[2], c[3])
    IN  IF max = min THEN R0
        ELSE RDiv(RSub(max, min),
                  RSub(R1, RAbs(RSub(RAdd(max, min), R1))))

\* the five-segment document mapping of lightness L under a scheme
FiveSegment(sch, L) ==
    LET bg  == <<sch.Background.R, sch.Background.G, sch.Background.B>>
        txt == <<sch.Text.R, sch.Text.G, sch.Text.B>>
        up(i)   == RAdd(txt[i], RMul(RDiv(RSub(L, Dec(7, 10)), Dec(2, 10)),
                                     RSub(bg[i], txt[i])))
        down(i) == RSub(txt[i], RMul(RDiv(L, Dec(4, 10)), RSub(txt[i], Dec(5, 10))))
    IN  CASE RGt(L, Dec(9, 10)) -> bg
          [] RGt(L, Dec(7, 10)) /\ RLe(L, Dec(9, 10)) -> <<up(1), up(2), up(3)>>
          [] RLt(L, Dec(15, 100)) -> txt
          [] RGe(L, Dec(15, 100)) /\ RLt(L, Dec(4, 10)) -> <<down(1), down(2), down(3)>>
          [] RGe(L, Dec(4, 10)) /\ RLe(L, Dec(7, 10)) ->
                 <<RSub(R1, L), RSub(R1, L), RSub(R1, L)>>

\* the colourful mapping with the given lightness bounds and saturation gain
ColorfulMapping(c, newL(_), gain) ==
    LET hsl == rgbToHSL(c[1], c[2], c[3])
    IN  hslToRGB(hsl[1], RMin(R1, RMul(hsl[2], gain)), newL(hsl[3]))

ContentNewL(l) ==
    IF RLt(l, Dec(55, 100))
    THEN RAdd(Dec(55, 100), RMul(RDiv(l, Dec(55, 100)), Dec(20, 100)))
    ELSE IF RGt(l, Dec(85, 100))
         THEN RAdd(Dec(70, 100), RMul(RSub(l, Dec(85, 100)), Dec(5, 10)))
         ELSE l

ColorfulContent(c) == ColorfulMapping(c, ContentNewL, Dec(115, 100))

\* C4: for an rgb operator whose colour has saturation < 0.15 and lightness
\* L, the replacement colour is the five-segment mapping of L under the
\* scheme (background above 0.9; text-to-background interpolation on
\* (0.7, 0.9]; text below 0.15; text-to-mid-gray interpolation on
\* [0.15, 0.4); 1 - L on [0.4, 0.7]), written with the original keyword.
C4_DocumentMapping ==
    (IsOp("rgb") /\ RLt(HSLSaturation(OpRGB), Dec(15, 100)))
        => /\ newOp.vals = FiveSegment(scheme, HSLLightness(OpRGB))
           /\ newOp.text = SprintfOp(FiveSegment(scheme, HSLLightness(OpRGB)),
                                     op.Operator)

\* C4 witness: a document colour on the boundary L = 0.7 was rewritten to
\* the plain inversion 0.3
C4_Witness ==
    /\ IsOp("rgb")
    /\ RLt(HSLSaturation(OpRGB), Dec(15, 100))
    /\ HSLLightness(OpRGB) = Dec(7, 10)
    /\ newOp.vals = <<Dec(3, 10), Dec(3, 10), Dec(3, 10)>>

\* C5: for an rgb operator whose colour has saturation >= 0.15 and HSL
\* (h, s, l), the replacement colour is hslToRGB(h, min(1, 1.15 s), l') with
\* l' = 0.55 + (l/0.55)*0.2 below 0.55, 0.70 + (l-0.85)*0.5 above 0.85 and l
\* otherwise, and every scheme gives the same replacement.
C5_ColorfulMapping ==
    (IsOp("rgb") /\ RGe(HSLSaturation(OpRGB), Dec(15, 100)))
        => /\ newOp.vals = ColorfulContent(OpRGB)
           /\ \A sch \in AvailableSchemes : TransformOperator(sch, op) = newOp

\* C5 witness: a colourful colour lighter than 0.85 whose boosted saturation
\* is clamped to 1 was rewritten
C5_Witness ==
    /\ IsOp("rgb")
    /\ RGe(HSLSaturation(OpRGB), Dec(15, 100))
    /\ RGt(HSLLightness(OpRGB), Dec(85, 100))
    /\ RGt(RMul(HSLSaturation(OpRGB), Dec(115, 100)), R1)
    /\ newOp.branch = "colorful"

\* C6: in both pipelines the document branch runs if and only if the HSL
\* saturation of the colour is strictly below 0.15 (so a saturation of
\* exactly 0.15 takes the colourful branch, whatever the hue).
C6_DocumentIffLowSaturation ==
    /\ (IsOp("rgb") \/ IsOp("cmyk"))
           => (newOp.branch = "document"
                   <=> RLt(HSLSaturation(OpRGB), Dec(15, 100)))
    /\ (pc = "done" /\ pixel # NoPixel)
           => (outPixel.branch = "document"
                   <=> RLt(HSLSaturation(PixelRGB), Dec(15, 100)))

\* C6 witness: an rgb operator of saturation exactly 0.15 took the colourful
\* branch
C6_Witness ==
    /\ IsOp("rgb")
    /\ HSLSaturation(OpRGB) = Dec(15, 100)
    /\ newOp.branch = "colorful"

\* the near-gray test failing on the background or on the text colour
TintedColor(c) ==
    \/ RGe(RAbs(RSub(c.R, c.G)), Dec(2, 100))
    \/ RGe(RAbs(RSub(c.G, c.B)), Dec(2, 100))
    \/ RGe(RAbs(RSub(c.R, c.B)), Dec(2, 100))

TintedScheme(sch) == TintedColor(sch.Background) \/ TintedColor(sch.Text)

\* C7, for operators whose colour is a document colour (a gray operator, or
\* a cmyk operator whose colour has saturation < 0.15): under a tinted scheme
\* the operator is written with rg (fill keywords g, k, sc, scn) or RG
\* (stroke keywords G, K, SC, SCN); under a scheme that is not tinted the
\* keyword written is the original keyword.
C7_TintedWritesRGBKeyword ==
    (IsOp("gray")
        \/ (IsOp("cmyk") /\ RLt(HSLSaturation(OpRGB), Dec(15, 100))))
        => newOp.keyword =
              IF TintedScheme(scheme)
              THEN IF op.Operator \in {KwFillGray, KwFillCMYK, KwSc, KwScn}
                   THEN KwFillRGB ELSE KwStrokeRGB
              ELSE op.Operator

\* C8: a gray operator with operand v is written, under a scheme that is not
\* tinted, as the single gray value the five-segment mapping gives for
\* lightness v with the original keyword, and under a tinted scheme as the
\* three channels that mapping gives.
C8_GrayUsesFiveSegment ==
    IsOp("gray")
        => IF TintedScheme(scheme)
           THEN newOp.vals = FiveSegment(scheme, OpVals[1])
           ELSE /\ newOp.vals = <<FiveSegment(scheme, OpVals[1])[1]>>
                /\ newOp.keyword = op.Operator

\* C9: a cmyk operator under a scheme that is not tinted is written as
\* rgbToCMYK of the colour an rgb operator with the converted colour
\* receives (five-segment mapping below saturation 0.15, colourful mapping
\* otherwise), with the original keyword.
C9_CMYKThroughRGBMapping ==
    (IsOp("cmyk") /\ ~TintedScheme(scheme))
        => /\ newOp.keyword = op.Operator
           /\ \E c \in {IF RLt(HSLSaturation(OpRGB), Dec(15, 100))
                        THEN FiveSegment(scheme, HSLLightness(OpRGB))
                        ELSE ColorfulContent(OpRGB)} :
                  newOp.vals = rgbToCMYK(c[1], c[2], c[3])

\* an 8-bit channel within 1/255 of a channel of the content pipeline
Within255(c8, v) == RLe(RAbs(RSub(Rat(c8, 255), v)), Rat(1, 255))

\* the colour the content pipeline gives the colour of the pixel in hand
ContentColorOfPixel ==
    transformRGBColor(scheme, PixelRGB[1], PixelRGB[2], PixelRGB[3]).rgb

PixelWithinContent ==
    /\ Within255(outPixel.color.R, ContentColorOfPixel[1])
    /\ Within255(outPixel.color.G, ContentColorOfPixel[2])
    /\ Within255(outPixel.color.B, ContentColorOfPixel[3])

RasterNewL(l) ==
    IF RGt(l, Dec(7, 10))
    THEN RAdd(Dec(5, 10), RMul(RSub(l, Dec(7, 10)), Dec(5, 10)))
    ELSE IF RLt(l, Dec(3, 10))
         THEN RAdd(Dec(3, 10), RMul(l, Dec(3, 10)))
         ELSE l

ColorfulRaster(c) == ColorfulMapping(c, RasterNewL, Dec(11, 10))

Floor255(v) == (RMul(v, RInt(255)).n) \div (RMul(v, RInt(255)).d)

----------------------------------------------------------------------------
(* Claims about the raster pipeline's pixel (SpecColor) *)

IsPixel == pc = "done" /\ pixel # NoPixel

\* the colour of the pixel produced, each channel as a fraction of 255
OutPixelRGB ==
    <<Rat(outPixel.color.R, 255), Rat(outPixel.color.G, 255),
      Rat(outPixel.color.B, 255)>>

PixelIsColorful == RGe(HSLSaturation(PixelRGB), Dec(15, 100))

----------------------------------------------------------------------------
(* Claims about the operators of one scan (SpecContent) *)

\* C12: operators of one scan with the same matched text get the same
\* replacement text, and the replacements map holds that text for the
\* matched text of every operator whose replacement differs from it.
C12_SameMatchSameReplacement ==
    pc = "done" =>
        \A i \in 1..Len(operators) :
            \E t \in {TransformOperator(scheme, operators[i]).text} :
                /\ \A j \in 1..Len(operators) :
                       operators[j].FullMatch = operators[i].FullMatch
                           => TransformOperator(scheme, operators[j]).text = t
                /\ t # operators[i].FullMatch
                       => /\ operators[i].FullMatch \in DOMAIN replacements
                          /\ replacements[operators[i].FullMatch] = t

\* C12 witness: a scan returned two operators with the same matched text at
\* different positions, and the map holds a replacement for it
C12_Witness ==
    /\ pc = "done"
    /\ \E i, j \in 1..Len(operators) :
           /\ i # j
           /\ operators[i].FullMatch = operators[j].FullMatch
           /\ operators[i].StartPos # operators[j].StartPos
           /\ operators[i].FullMatch \in DOMAIN replacements

\* the number of operands of a family
Arity(space) == CASE space = "gray" -> 1 [] space = "rgb" -> 3 [] space = "cmyk" -> 4

UpperCaseKeywords ==
    {<<"R", "G">>, <<"G">>, <<"K">>, <<"S", "C">>, <<"S", "C", "N">>}

\* C13: every operator of a scan has FullMatch = content[StartPos:EndPos],
\* 1, 3 or 4 Values for gray, rgb or cmyk, Values and keyword that are the
\* words of the matched text in order, and IsStroke exactly when the keyword
\* is upper-case.
C13_OperatorFields ==
    pc = "done" =>
        \A i \in 1..Len(operators) :
            \E o \in {operators[i]} :
                /\ o.StartPos >= 0 /\ o.StartPos < o.EndPos /\ o.EndPos <= Len(content)
                /\ o.FullMatch = SubSeq(content, o.StartPos + 1, o.EndPos)
                /\ o.ColorSpace \in {"gray", "rgb", "cmyk"}
                /\ Len(o.Values) = Arity(o.ColorSpace)
                /\ JoinWords(o.Values \o <<o.Operator>>) = o.FullMatch
                /\ o.IsStroke <=> o.Operator \in UpperCaseKeywords

\* C13 witness: the scan of "0.5 0.2 0.1 rg 0 0 0 RG" returned a fill and a
\* stroke rgb operator with the operands as written
C13_Witness ==
    /\ pc = "done"
    /\ Len(operators) = 2
    /\ operators[1].Values = <<<<"0", ".", "5">>, <<"0", ".", "2">>, <<"0", ".", "1">>>>
    /\ operators[1].IsStroke = FALSE
    /\ operators[2].Values = <<<<"0">>, <<"0">>, <<"0">>>>
    /\ operators[2].Operator = KwStrokeRGB
    /\ operators[2].IsStroke = TRUE
    /\ operators[2].StartPos = 15

\* a content text made of one rg/RG operator followed by one g/G operator
RgThenG ==
    \E a, b \in OperatorWords :
        /\ a[Len(a)] \in {KwFillRGB, KwStrokeRGB}
        /\ b[Len(b)] \in {KwFillGray, KwStrokeGray}
        /\ content = JoinWords(a \o b)

\* C14: no operand of an rg/RG operator is inside the span of a g/G
\* operator of the same scan, and the scan of an rg/RG operator followed by
\* a g/G operator returns exactly one rgb operator and one gray operator.
C14_RgOperandNotGray ==
    pc = "done" =>
        /\ \A i, j \in 1..Len(operators) :
               (/\ operators[i].Operator \in {KwFillRGB, KwStrokeRGB}
                /\ operators[j].Operator \in {KwFillGray, KwStrokeGray})
                   => SpansDisjoint(operators[i], operators[j])
        /\ RgThenG =>
               /\ Len(operators) = 2
               /\ operators[1].ColorSpace = "rgb"
               /\ operators[1].StartPos = 0
               /\ operators[2].ColorSpace = "gray"
               /\ operators[2].StartPos = operators[1].EndPos + 1
               /\ operators[2].EndPos = Len(content)

\* C14 witness: the scan of "0.5 0.2 0.1 rg 0.3 g" returned the rgb operator
\* and the gray operator 0.3 g
C14_Witness ==
    /\ pc = "done"
    /\ RgThenG
    /\ Len(operators) = 2
    /\ operators[1].Values = <<<<"0", ".", "5">>, <<"0", ".", "2">>, <<"0", ".", "1">>>>
    /\ operators[2].Values = <<<<"0", ".", "3">>>>
    /\ operators[2].Operator = KwFillGray

----------------------------------------------------------------------------
(* Claims about the text of a rewritten operator (SpecColor) *)

AllOperandsAre(numeral) ==
    \A i \in 1..Len(op.Values) : op.Values[i] = numeral

\* three operands of three decimals each, single spaces, then the keyword
ThreeDecimalLayout(text, keyword) ==
    /\ Len(text) = 18 + Len(keyword)
    /\ \A k \in 0..2 :
           /\ IsDigit(text[6 * k + 1])
           /\ text[6 * k + 2] = "."
           /\ IsDigit(text[6 * k + 3])
           /\ IsDigit(text[6 * k + 4])
           /\ IsDigit(text[6 * k + 5])
           /\ text[6 * k + 6] = " "
    /\ SubSeq(text, 19, Len(text)) = keyword

\* C15: an rgb operator with operands 1 1 1 is written as the background's
\* channels and one with operands 0 0 0 as the text colour's channels, three
\* decimals each, single spaces, original keyword; under dark "1 1 1 rg"
\* becomes "0.102 0.102 0.102 rg" and "0 0 0 RG" "0.878 0.878 0.878 RG".
C15_WhiteAndBlackOperators ==
    /\ (IsOp("rgb") /\ AllOperandsAre(<<"1">>))
           => /\ newOp.vals = <<scheme.Background.R, scheme.Background.G,
                                scheme.Background.B>>
              /\ newOp.text = SprintfOp(newOp.vals, op.Operator)
              /\ ThreeDecimalLayout(newOp.text, op.Operator)
              /\ (scheme = SchemeDark /\ op.Operator = KwFillRGB)
                     => newOp.text =
                          <<"0", ".", "1", "0", "2", " ", "0", ".", "1", "0", "2", " ",
                            "0", ".", "1", "0", "2", " ", "r", "g">>
    /\ (IsOp("rgb") /\ AllOperandsAre(<<"0">>))
           => /\ newOp.vals = <<scheme.Text.R, scheme.Text.G, scheme.Text.B>>
              /\ newOp.text = SprintfOp(newOp.vals, op.Operator)
              /\ ThreeDecimalLayout(newOp.text, op.Operator)
              /\ (scheme = SchemeDark /\ op.Operator = KwStrokeRGB)
                     => newOp.text =
                          <<"0", ".", "8", "7", "8", " ", "0", ".", "8", "7", "8", " ",
                            "0", ".", "8", "7", "8", " ", "R", "G">>

\* C15 witness: "1 1 1 rg" was rewritten under dark
C15_Witness ==
    /\ IsOp("rgb")
    /\ scheme = SchemeDark
    /\ AllOperandsAre(<<"1">>)
    /\ op.Operator = KwFillRGB
    /\ newOp.text # op.FullMatch
    /\ newOp.keyword = KwFillRGB

\* C16: a document pixel (saturation < 0.15) of lightness above 0.9 becomes
\* exactly the background's 8-bit channels with its own alpha; white
\* (255, 255, 255, 255) under dark becomes (26, 26, 26, 255).
C16_LightPixelToBackground ==
    /\ (IsPixel /\ ~PixelIsColorful /\ RGt(HSLLightness(PixelRGB), Dec(9, 10)))
           => outPixel.color =
                  RGBA(scheme.Background.R8, scheme.Background.G8,
                       scheme.Background.B8, pixel.A)
    /\ (IsPixel /\ scheme = SchemeDark /\ pixel = RGBA(255, 255, 255, 255))
           => outPixel.color = RGBA(26, 26, 26, 255)

\* C16 witness: a light gray pixel that is not white, with alpha 128, became
\* the background
C16_Witness ==
    /\ IsPixel
    /\ pixel = RGBA(240, 240, 240, 128)
    /\ outPixel.branch = "document"
    /\ outPixel.color.A = 128
    /\ outPixel.color.R = scheme.Background.R8

\* C17: whichever branch a pixel takes, the alpha of the pixel produced is
\* the 8-bit alpha of the input pixel.
C17_AlphaPreserved ==
    IsPixel => /\ outPixel.branch \in {"document", "colorful"}
               /\ outPixel.color.A = pixel.A

\* C17 witness: a half-transparent pixel took the colourful branch, changed
\* colour and kept its alpha
C17_Witness ==
    /\ IsPixel
    /\ pixel.A = 128
    /\ outPixel.branch = "colorful"
    /\ outPixel.color.R # pixel.R
    /\ outPixel.color.A = 128

\* an image has been through InvertImage
IsImage == pc = "done" /\ img # NoImage

\* the visiting orders of the points of a rectangle
VisitOrders(r) ==
    {o \in [1..Cardinality(PointsIn(r)) -> PointsIn(r)] :
        \A i, j \in 1..Cardinality(PointsIn(r)) : o[i] = o[j] => i = j}

\* the loop body applied to the points in the order given, from point i on
RECURSIVE InvertInOrder(_, _, _, _, _)
InvertInOrder(sch, image, res, order, i) ==
    IF i > Len(order) THEN res
    ELSE InvertInOrder(sch, image,
                       InvertPixelAt(sch, image, res, order[i][1], order[i][2]),
                       order, i + 1)

\* C18: the image InvertImage returns has the bounds of the input, each of
\* its pixels is smartInvertPixel of the input pixel at the same point, and
\* the loop body applied to the points in any order gives the same image.
C18_PixelwiseAnyOrder ==
    IsImage =>
        /\ result.Rect = img.Rect
        /\ DOMAIN result.Pix = PointsIn(img.Rect)
        /\ \A p \in PointsIn(img.Rect) :
               result.Pix[p] = smartInvertPixel(scheme, img.Pix[p]).color
        /\ \A order \in VisitOrders(img.Rect) :
               InvertInOrder(scheme, img, NewRGBA(img.Rect), order, 1) = result

\* C18 witness: a two-by-two image away from the origin, its pixels not all
\* alike, has been inverted
C18_Witness ==
    /\ IsImage
    /\ img.Rect = Rectangle(1, 2, 3, 4)
    /\ img.Pix[<<1, 2>>] # img.Pix[<<2, 2>>]
    /\ img.Pix[<<1, 2>>] # img.Pix[<<1, 3>>]
    /\ result.Pix[<<2, 3>>] = smartInvertPixel(scheme, img.Pix[<<2, 3>>]).color
    /\ result.Pix[<<1, 2>>] # result.Pix[<<2, 2>>]

\* a text ParseFloat accepts, among the texts of the model: an optionally
\* signed decimal literal
IsNumberText(s) ==
    IsUnsignedDecimal(IF s # <<>> /\ s[1] \in {"-", "+"} THEN Tail(s) ELSE s)

HasRejectedOperand(o) == \E i \in DOMAIN o.Values : ~IsNumberText(o.Values[i])

\* the operator with 0 written for every operand ParseFloat rejects
ZeroedOperator(o) ==
    [o EXCEPT !.Values =
        [i \in DOMAIN o.Values |->
            IF IsNumberText(o.Values[i]) THEN o.Values[i] ELSE <<"0">>]]

\* C19: an operator with an operand that is no number is rewritten as the
\* operator with 0 in the place of that operand and the other operands as
\* they are, and a replacement text is produced.
C19_RejectedOperandIsZero ==
    (pc = "done" /\ op # NoOp /\ HasRejectedOperand(op))
        => /\ newOp = TransformOperator(scheme, ZeroedOperator(op))
           /\ newOp.text # <<>>
           /\ newOp.branch \in {"document", "colorful"}

\* C19 witness: an rgb operator with one operand that is no number and
\* another that is not 0 has been rewritten
C19_Witness ==
    /\ pc = "done"
    /\ op # NoOp
    /\ op.ColorSpace = "rgb"
    /\ op.Values[1] = <<"x">>
    /\ op.Values[2] = <<"0", ".", "4">>
    /\ op.Values[3] = <<"0", ".", "4">>
    /\ newOp.branch = "colorful"
    /\ newOp.text # <<>>

ColorPatterns ==
    {rgbPattern, grayPattern, cmykPattern, scRgbPattern, scGrayPattern, scCmykPattern}

\* none of the six patterns matches anywhere in the text
NoColorOperatorIn(text) ==
    \A pat \in ColorPatterns :
        \A i \in 0..Len(text) : MatchAt(pat, text, i).end < 0

\* C20: for a content text in which no colour operator occurs the scan
\* returns the empty sequence, and whenever the scan returns the empty
\* sequence the stream is reported with 0 changed operators, nothing is
\* put in the replacement map and the content is left as it was.
C20_NoOperatorsNoChange ==
    /\ (pc = "done" /\ op = NoOp /\ img = NoImage /\ NoColorOperatorIn(content))
           => operators = <<>>
    /\ (pc = "done" /\ op = NoOp /\ img = NoImage /\ operators = <<>>)
           => /\ count = 0
              /\ DOMAIN replacements = {}
              /\ newContent = content

\* C20 witness: a text with a keyword and numerals but no operator has been
\* processed
C20_Witness ==
    /\ pc = "done"
    /\ content = <<"r", "g", " ", "0", " ", "0">>
    /\ NoColorOperatorIn(content)
    /\ operators = <<>>
    /\ count = 0
    /\ newContent = content

\* C25: the text ReplaceColorOperators returns for the content and the
\* replacement map of a stream is the same in whatever order the entries of
\* the map are visited.
C25_ReplaceOrderIndependent ==
    (pc = "done" /\ op = NoOp /\ img = NoImage /\ DOMAIN replacements # {})
        => \A order \in KeyOrders(DOMAIN replacements) :
               ReplaceColorOperators(content, replacements, order) = newContent

\* the number of operands the keyword kw takes, counting for the keywords
\* sc, SC, scn and SCN the operands of the original operator o
KeywordArity(kw, o) ==
    IF kw \in {KwFillRGB, KwStrokeRGB} THEN 3
    ELSE IF kw \in {KwFillGray, KwStrokeGray} THEN 1
    ELSE IF kw \in {KwFillCMYK, KwStrokeCMYK} THEN 4
    ELSE Len(o.Values)

\* C27: the replacement TransformOperator produces carries as many operands
\* as the keyword it is written with takes: 3 with rg/RG, 1 with g/G, 4 with
\* k/K, and with sc/SC/scn/SCN as many as the original operator had.
C27_ReplacementArity ==
    (pc = "done" /\ op # NoOp)
        => Len(newOp.vals) = KeywordArity(newOp.keyword, op)

(* Claims about the construction of a scheme (SpecScheme) *)

\* exactly six base-16 digits after an optional leading #
IsHexColor(s) ==
    LET sixDigits(t) ==
            /\ Len(t) = 6
            /\ \A i \in 1..6 : \E j \in 1..16 : HexChars[j] = ToLowerChar(t[i])
    IN  sixDigits(s) \/ (s # <<>> /\ s[1] = "#" /\ sixDigits(Tail(s)))

\* the 8-bit channels the six digits of a colour text stand for
HexChannels(s) ==
    LET digits == IF Len(s) = 7 THEN Tail(s) ELSE s
    IN  [k \in 1..3 |-> 16 * HexDigitVal(digits[2 * k - 1]) + HexDigitVal(digits[2 * k])]

PresetNames ==
    {<<"d", "a", "r", "k">>, <<"s", "e", "p", "i", "a">>, <<"n", "o", "r", "d">>,
     <<"s", "o", "l", "a", "r", "i", "z", "e", "d">>,
     <<"g", "r", "u", "v", "b", "o", "x">>, <<"d", "r", "a", "c", "u", "l", "a">>,
     <<"m", "o", "n", "o", "k", "a", "i">>}

SchemeBuilt == pc \in {"ready", "failed", "done"} /\ request # NoRequest

\* C23: a request by name yields a preset exactly when the name is, letter
\* case aside, one of the seven preset names; a request by two colours yields
\* the custom scheme of those colours exactly when each is six base-16 digits
\* after an optional #; every other request yields an error and the zero
\* Scheme.
C23_SchemeOrZeroWithError ==
    SchemeBuilt =>
        /\ request.kind = "name" /\ ToLower(request.name) \in PresetNames
               => /\ err = ""
                  /\ scheme \in AvailableSchemes
                  /\ <<ToLower(request.name), scheme>> \in AvailableSchemesByName
        /\ request.kind = "name" /\ ToLower(request.name) \notin PresetNames
               => err # "" /\ scheme = ZeroScheme
        /\ request.kind = "custom" /\ IsHexColor(request.bgHex)
                                   /\ IsHexColor(request.textHex)
               => /\ err = ""
                  /\ scheme.Name = "custom"
                  /\ scheme.Background =
                         NewColorFromRGB8(HexChannels(request.bgHex)[1],
                                          HexChannels(request.bgHex)[2],
                                          HexChannels(request.bgHex)[3])
                  /\ scheme.Text =
                         NewColorFromRGB8(HexChannels(request.textHex)[1],
                                          HexChannels(request.textHex)[2],
                                          HexChannels(request.textHex)[3])
        /\ request.kind = "custom" /\ ~(IsHexColor(request.bgHex)
                                        /\ IsHexColor(request.textHex))
               => err # "" /\ scheme = ZeroScheme

\* C23 witness: a well-formed background with a malformed text colour was
\* refused with the zero Scheme
C23_Witness ==
    /\ pc = "failed"
    /\ request.kind = "custom"
    /\ IsHexColor(request.bgHex)
    /\ request.textHex = <<"1", "a", "1", "a", "1", "g">>
    /\ err = "invalid text color"
    /\ scheme = ZeroScheme

OperandsInUnitRange(o) ==
    \A i \in DOMAIN o.Values :
        RGe(parseFloat(o.Values[i]), R0) /\ RLe(parseFloat(o.Values[i]), R1)

\* C28: under a scheme built from a preset name or from two six-digit
\* colours, the replacement of an operator whose operands lie in [0,1] has
\* every operand in [0,1].
C28_ReplacementOperandsInUnitRange ==
    (pc = "done" /\ request # NoRequest /\ op # NoOp /\ OperandsInUnitRange(op))
        => \A i \in DOMAIN newOp.vals :
               RGe(newOp.vals[i], R0) /\ RLe(newOp.vals[i], R1)

SchemeTextLighter(sch) ==
    RGt(HSLLightness(<<sch.Text.R, sch.Text.G, sch.Text.B>>),
        HSLLightness(<<sch.Background.R, sch.Background.G, sch.Background.B>>))

\* C29: under a scheme whose text colour is lighter than its background the
\* document mapping reverses the order of lightness: the replacement of a
\* document colour is at least as light as the replacement of every lighter
\* document colour.
C29_DocumentMappingReversesOrder ==
    (IsOp("rgb") /\ newOp.branch = "document" /\ SchemeTextLighter(scheme))
        => \A v \in Numerals :
               RLt(HSLLightness(OpRGB), parseFloat(v))
                   => RGe(HSLLightness(newOp.vals),
                          HSLLightness(invertDocumentColorRGB(scheme, parseFloat(v))))

\* lightness within [0.55, 0.85] and saturation at least that of colour c
BrightAndAsSaturatedAs(out, c) ==
    /\ RGe(HSLLightness(out), Dec(55, 100))
    /\ RLe(HSLLightness(out), Dec(85, 100))
    /\ RGe(HSLSaturation(out), HSLSaturation(c))

\* C30: the colour adjustColorfulRGB returns for a colourful colour with
\* channels in [0,1] has HSL lightness from 0.55 to 0.85 and a saturation not
\* below the saturation of the input; the rgb family writes that colour,
\* the cmyk family hands it to rgbToCMYK.
C30_ColorfulLightnessAndSaturation ==
    /\ (IsOp("rgb") /\ newOp.branch = "colorful" /\ OperandsInUnitRange(op))
           => BrightAndAsSaturatedAs(newOp.vals, OpRGB)
    /\ (IsOp("cmyk") /\ newOp.branch = "colorful" /\ OperandsInUnitRange(op))
           => BrightAndAsSaturatedAs(
                  adjustColorfulRGB(OpRGB[1], OpRGB[2], OpRGB[3], HSLLightness(OpRGB)),
                  OpRGB)

\* C30 witness: a dark colourful rgb colour was lightened to 0.55 or more and
\* gained saturation
C30_Witness ==
    /\ IsOp("rgb")
    /\ newOp.branch = "colorful"
    /\ RLt(HSLLightness(OpRGB), Dec(4, 10))
    /\ RGe(HSLLightness(newOp.vals), Dec(55, 100))
    /\ RLt(HSLSaturation(OpRGB), R1)
    /\ RGt(HSLSaturation(newOp.vals), HSLSaturation(OpRGB))

(* Claims about the HSL conversions (SpecHSL) *)

IsRoundTrip == pc = "done" /\ hslIn # NoHSL

\* each of h, s, l came back within 0.001
BackWithinThousandth ==
    \A i \in 1..3 : RLe(RAbs(RSub(roundTrip[i], hslIn[i])), Rat(1, 1000))

IsConvert == inFile # NoContext

PageNums == 1..Len(inFile.pages)

\* the object fails a rewrite with an error: it cannot be dereferenced, or
\* it has operators to rewrite and cannot be re-encoded or found in the table
Surfaces(obj) ==
    \/ obj.fault = "deref"
    \/ /\ obj.fault \in {"encode", "entry"}
       /\ \E w \in RewriteOutcomes(scheme, obj.content) : w.count > 0

\* processPage returns an error for page p: its dictionary cannot be read, or
\* its single content stream fails
PageReportsError(p) ==
    \/ inFile.pages[p].dictFault
    \/ /\ inFile.pages[p].kind = "ref"
       /\ Surfaces(inFile.objects[inFile.pages[p].ref])

\* every page was visited, every page was offered a background and the
\* write was attempted, whatever failed on the way
ConvertRanToTheEnd ==
    /\ pc = "pages" => Len(run.pageErrs) = run.pageNum - 1
    /\ pc \in {"backgrounds", "write", "returned"}
           => Len(run.pageErrs) = Len(inFile.pages)
    /\ pc = "backgrounds" => Len(run.bgErrs) = run.bgNum - 1
    /\ pc \in {"write", "returned"} => Len(run.bgErrs) = Len(inFile.pages)
    /\ pc = "returned"
           => /\ run.err \in {"", "failed to create output file", "failed to write PDF"}
              /\ run.err = "" => outFile = ctx /\ outFile # NoContext

\* C21 as stated: no failure on a page stops the conversion, and the pages
\* counted as processed are the pages on which nothing failed.
C21_OnlyCleanPagesCounted ==
    IsConvert =>
        /\ ConvertRanToTheEnd
        /\ pc \in {"backgrounds", "write", "returned"}
               => run.pagesProcessed =
                      Cardinality({p \in PageNums :
                                      run.pageErrs[p] = "" /\ run.skipped[p] = 0})

\* C21 amended: no failure on a page stops the conversion, and the pages
\* counted as processed are the pages for which processPage returned no
\* error: every page but those whose dictionary cannot be read or whose
\* single content stream fails; a page whose Contents is an array is counted
\* whatever fails on its streams.
C21_PagesWithoutReportedErrorCounted ==
    IsConvert =>
        /\ ConvertRanToTheEnd
        /\ \A p \in 1..Len(run.pageErrs) : run.pageErrs[p] # "" <=> PageReportsError(p)
        /\ pc \in {"backgrounds", "write", "returned"}
               => run.pagesProcessed =
                      Cardinality({p \in PageNums : ~PageReportsError(p)})

\* C21 witness: the first page failed, the second was rewritten and counted,
\* its background was added and the output was written
C21_Witness ==
    /\ IsConvert
    /\ pc = "returned"
    /\ Len(inFile.pages) = 2
    /\ run.pageErrs[1] # ""
    /\ run.pageErrs[2] = ""
    /\ run.pagesProcessed = 1
    /\ run.colorsTransformed = 1
    /\ run.bgErrs[2] = ""
    /\ run.err = ""
    /\ outFile = ctx
    /\ ctx # inFile

\* the contents of the streams a page's Contents entry refers to, in order
RECURSIVE ItemsContent(_, _)
ItemsContent(objects, items) ==
    IF items = <<>> THEN <<>>
    ELSE IF ~Head(items).isRef THEN ItemsContent(objects, Tail(items))
    ELSE objects[Head(items).ref].content \o ItemsContent(objects, Tail(items))

PageContent(context, p) ==
    IF context.pages[p].kind = "ref"
    THEN context.objects[context.pages[p].ref].content
    ELSE IF context.pages[p].kind = "array"
    THEN ItemsContent(context.objects, context.pages[p].items)
    ELSE <<>>

StartsWith(text, prefix) ==
    Len(text) >= Len(prefix) /\ SubSeq(text, 1, Len(prefix)) = prefix

\* C24: after the background step, the content of every page for which the
\* step reported no error starts with the background rectangle and the
\* default colour operators, whether the page had no Contents entry, one
\* stream or an array of streams, the empty array included.
C24_PageContentStartsWithBackground ==
    (IsConvert /\ pc \in {"write", "returned"})
        => \A p \in PageNums :
               run.bgErrs[p] = "" => StartsWith(PageContent(ctx, p), bgContent)

\* what one rewrite of a stream can leave in it: its content as it was, or
\* one of the texts ReplaceColorOperators makes of that content
RewrittenAtMostOnce(original, now) ==
    \/ now = original
    \/ \E w \in RewriteOutcomes(scheme, original) : now = w.content

\* C26: when the page loop of a conversion has ended, each content stream
\* object holds its original content rewritten at most once, also when two
\* pages or two entries of one Contents array refer to the same stream.
C26_StreamRewrittenAtMostOnce ==
    (IsConvert /\ pc = "backgrounds" /\ run.bgNum = 1)
        => \A n \in 1..Len(inFile.objects) :
               RewrittenAtMostOnce(inFile.objects[n].content, ctx.objects[n].content)

====
